---- MODULE Spec2Model ----
(***************************************************************************)
(* Model of the deep-research controller of prompthub                      *)
(* (src/deep_research): the LangGraph workflow planning -> search ->       *)
(* analysis -> iteration -> synthesis -> report, driven by the streaming   *)
(* loop of DeepResearchWorkflow.run_research with its step ceiling.        *)
(*                                                                         *)
(* Relevance scores are kept in tenths (9 stands for 0.9); the confidence  *)
(* score is an exact fraction <<numerator, denominator>>.                  *)
(***************************************************************************)
EXTENDS Integers, Sequences, FiniteSets

(***************************************************************************)
(* Bounds of the model                                                     *)
(***************************************************************************)
\* largest max_iterations a workflow is constructed with
MaxIterBound == 4
\* number of results a strategy returns on a corpus with many matches
BulkSize == 11
\* number of files of a large corpus
MaxFiles == 11
\* number of index_documents calls made on one lexical index
MaxIndexCalls == 2
\* number of research runs made on one workflow object
MaxRuns == 2
\* number of files handed to the content extraction node
MaxDiscovered == 4
\* largest top_k of a hybrid search
MaxTopK == 2
\* largest number of results a sub-search of a hybrid search returns
MaxHits == 3
\* largest number of characters of a text that is chunked
MaxTextLen == 5
\* largest chunk_size of a chunk_text call
MaxChunkSize == 3
\* largest overlap of a chunk_text call
MaxOverlap == 3
MaxVersions == 3

(***************************************************************************)
(* Program constants                                                       *)
(***************************************************************************)
\* run_research: "if step_count > 20: break"
StepCeiling == 20
\* AnalysisNode: "len(relevant_results) < 20"
EnoughResults == 20
\* AnalysisNode: fallback "[:10]"
FallbackTop == 10
\* SearchNode._dense/_bm25/_hybrid_retrieval_search: "top_k=10"
RetrievalTopK == 10
\* ContentAnalyzer.suggest_follow_up_queries: "suggestions[:5]"
MaxSuggestions == 5
\* ContentAnalyzer.suggest_follow_up_queries: "count >= 3"
MinTermCount == 3

Min(a, b) == IF a <= b THEN a ELSE b

\* ResearchStatus
ResearchStatus ==
    {"PLANNING", "SEARCHING", "ANALYZING", "ITERATING", "SYNTHESIZING", "COMPLETED"}

\* the strategy names dispatched by SearchNode.__call__
Strategies ==
    {"grep_search", "fuzzy_search", "code_structure_analysis", "config_file_search",
     "data_flow_analysis", "dense_retrieval", "bm25_retrieval", "hybrid_retrieval"}

\* the queries a run is started with, by the features PlanningNode looks at;
\* words = 0 is the empty string
Queries ==
    { [structure |-> FALSE, config |-> FALSE, data |-> FALSE, words |-> 0],
      [structure |-> FALSE, config |-> FALSE, data |-> FALSE, words |-> 1],
      [structure |-> TRUE,  config |-> FALSE, data |-> FALSE, words |-> 2],
      [structure |-> FALSE, config |-> TRUE,  data |-> TRUE,  words |-> 5],
      [structure |-> TRUE,  config |-> TRUE,  data |-> TRUE,  words |-> 6] }

\* similarity_threshold values of the constructor, in tenths (0.3 is the default)
Thresholds == {3, 10}

\* what the workspace holds: how many lines/chunks each family of search
\* tools finds, how strong the matches are, how many files they spread over,
\* and a tool that raises when called
Corpora ==
    [ direct     : {"none", "one", "bulk"},
      follow     : {"none", "one", "bulk"},
      retrieval  : {"none", "one", "bulk"},
      structural : {"none", "one"},
      match      : {"weak", "strong"},
      files      : {1, MaxFiles},
      broken     : {"none", "grep_search"} ]

VARIABLES
    original_query,       \* ResearchState.original_query
    current_query,        \* ResearchState.current_query
    iterations,           \* ResearchState.iterations
    current_iteration,    \* ResearchState.current_iteration
    status,               \* ResearchState.status
    all_results,          \* ResearchState.all_results
    search_strategies,    \* ResearchState.search_strategies
    completed_searches,   \* ResearchState.completed_searches
    pending_searches,     \* ResearchState.pending_searches
    research_report,      \* ResearchState.research_report
    confidence_score,     \* ResearchState.confidence_score
    max_iterations,       \* ResearchState.max_iterations
    similarity_threshold, \* ResearchState.similarity_threshold
    corpus,               \* the files under workspace_path
    node,                 \* the graph node that runs next
    step_count,           \* run_research: step_count
    pc,                   \* run_research: streaming / left the loop / returned
    returned,             \* the value run_research returned
    iterCycles,           \* history: ITERATING -> SEARCHING steps taken
    searchPhases,         \* history: strategy queues started
    ranSynthesis          \* history: SynthesisNode has executed

\* the state of a research run and of the loop that streams it
ctlVars ==
    <<original_query, current_query, iterations, current_iteration, status,
      all_results, search_strategies, completed_searches, pending_searches,
      research_report, confidence_score, max_iterations, similarity_threshold,
      corpus, node, step_count, pc, returned, iterCycles, searchPhases,
      ranSynthesis>>

VARIABLES
    workspace,            \* the files under workspace_path: path -> words or "missing"
    bm25_tool,            \* SearchNode.bm25_tool: "None" or "built"
    documents,            \* BM25RetrievalTool.documents, in dict order
    doc_lengths,          \* BM25RetrievalTool.doc_lengths
    avg_doc_length,       \* BM25RetrievalTool.avg_doc_length, <<total, count>>
    term_frequencies,     \* BM25RetrievalTool.term_frequencies
    document_frequencies, \* BM25RetrievalTool.document_frequencies
    index_calls,          \* history: the batches index_documents was called with
    bm25_query,           \* the query of the latest search
    bm25_top_k,           \* the top_k of the latest search
    bm25_results,         \* what the latest search returned
    run_count             \* history: searches run through the SearchNode

\* the lexical index, its workspace and its latest search
bm25Vars ==
    <<workspace, bm25_tool, documents, doc_lengths, avg_doc_length,
      term_frequencies, document_frequencies, index_calls, bm25_query,
      bm25_top_k, bm25_results, run_count>>

VARIABLES
    discovered_files,     \* NodeState.discovered_files
    max_concurrent_files, \* ContentExtractionNode.max_concurrent_files
    batch_start,          \* process: the loop variable i
    extracted_content,    \* process: the local list extracted_content
    state_extracted,      \* NodeState.extracted_content
    extraction_stats,     \* NodeState.metadata['extraction_stats']
    extract_pc            \* process: "batches" or "done"

\* the content extraction node and the state it works on
extractVars ==
    <<discovered_files, max_concurrent_files, batch_start, extracted_content,
      state_extracted, extraction_stats, extract_pc>>

VARIABLES
    dense_results,        \* HybridRetrievalTool.search: dense_results
    sparse_results,       \* HybridRetrievalTool.search: sparse_results
    hybrid_top_k,         \* HybridRetrievalTool.search: top_k
    hybrid_results        \* what HybridRetrievalTool.search returned

\* a hybrid search
hybridVars == <<dense_results, sparse_results, hybrid_top_k, hybrid_results>>

VARIABLES
    chunk_by,             \* chunk_text: chunk_by
    text,                 \* chunk_text: text
    chunk_size,           \* chunk_text: chunk_size
    overlap,              \* chunk_text: overlap
    start_idx,            \* _chunk_by_*: start / start_idx
    chunk_id,             \* _chunk_by_*: chunk_id
    chunks,               \* _chunk_by_*: chunks
    chunk_pc              \* chunk_text: "loop", "done" or "idle"

\* a call of TextProcessor.chunk_text
chunkVars ==
    <<chunk_by, text, chunk_size, overlap, start_idx, chunk_id, chunks,
      chunk_pc>>

VARIABLES
    dense_files,          \* the files under workspace_path: path -> words
    document_cache,       \* .research_cache/document_cache.pkl
    dense_documents,      \* DenseRetrievalTool.documents, in dict order
    dense_vocabulary,     \* DenseRetrievalTool.vocabulary
    idf_scores,           \* DenseRetrievalTool.idf_scores, in tenths
    embeddings,           \* DenseRetrievalTool.embeddings, in dict order
    vector_query,         \* the query of the latest dense search
    vector_results        \* what the latest dense search returned

\* a DenseRetrievalTool, its workspace and its latest search
denseVars ==
    <<dense_files, document_cache, dense_documents, dense_vocabulary,
      idf_scores, embeddings, vector_query, vector_results>>

VARIABLES
    run_inputs,           \* the arguments of run_research: directory_path and query
    node_state,           \* the NodeState passed from node to node
    pipe_pc,              \* the node of the graph to run next: 0 before the call, 1..5, 6 at END, 7 returned
    process_calls,        \* the nodes whose process has been called
    run_result            \* what run_research did: "none" while running, then the value of "success" or "raised"

\* one run_research call of the DeepResearchWorkflow of roma
pipeVars ==
    <<run_inputs, node_state, pipe_pc, process_calls, run_result>>

VARIABLES
    prompt_versions,      \* the rows of prompt_versions, in the order of their id
    db_result             \* the latest call: its name, its arguments and whether it raised ValueError

\* the prompt_versions table of a DatabaseManager and its latest call
versionVars ==
    <<prompt_versions, db_result>>

\* everything outside the research controller
toolVars == <<bm25Vars, extractVars, hybridVars, chunkVars, denseVars, pipeVars, versionVars>>

\* everything outside the lexical index
notBM25 == <<ctlVars, extractVars, hybridVars, chunkVars, denseVars, pipeVars, versionVars>>

\* everything outside the content extraction node
notExtract == <<ctlVars, bm25Vars, hybridVars, chunkVars, denseVars, pipeVars, versionVars>>

\* everything outside the hybrid search
notHybrid == <<ctlVars, bm25Vars, extractVars, chunkVars, denseVars, pipeVars, versionVars>>

\* everything outside the text chunker
notChunk == <<ctlVars, bm25Vars, extractVars, hybridVars, denseVars, pipeVars, versionVars>>

\* everything outside the dense retrieval tool
notDense == <<ctlVars, bm25Vars, extractVars, hybridVars, chunkVars, pipeVars, versionVars>>

\* everything outside the roma workflow
notPipe == <<ctlVars, bm25Vars, extractVars, hybridVars, chunkVars, denseVars, versionVars>>

\* everything outside the DatabaseManager
notVersion == <<ctlVars, bm25Vars, extractVars, hybridVars, chunkVars, denseVars, pipeVars>>

vars == <<ctlVars, toolVars>>

(***************************************************************************)
(* PlanningNode                                                            *)
(***************************************************************************)
\* PlanningNode.__call__: the strategy list chosen from the query
PlanStrategies(q) ==
    <<"grep_search", "fuzzy_search">>
    \o (IF q.structure THEN <<"code_structure_analysis">> ELSE <<>>)
    \o (IF q.config THEN <<"config_file_search">> ELSE <<>>)
    \o (IF q.data THEN <<"data_flow_analysis">> ELSE <<>>)
    \o (IF q.words > 3
        THEN <<"dense_retrieval", "bm25_retrieval", "hybrid_retrieval">>
        ELSE <<>>)

(***************************************************************************)
(* The search tools, as far as the controller sees them                    *)
(***************************************************************************)
\* relevance_score a tool gives its results, in tenths
ToolScore(strategy, match) ==
    CASE strategy = "grep_search"             -> 9
      [] strategy = "fuzzy_search"            -> IF match = "strong" THEN 10 ELSE 4
      [] strategy = "code_structure_analysis" -> IF match = "strong" THEN 10 ELSE 2
      [] strategy = "config_file_search"      -> 8
      [] strategy = "data_flow_analysis"      -> 7
      [] strategy = "dense_retrieval"         -> IF match = "strong" THEN 9 ELSE 1
      [] strategy = "bm25_retrieval"          -> IF match = "strong" THEN 10 ELSE 1
      [] OTHER                                -> IF match = "strong" THEN 9 ELSE 1

\* what the content of a tool's result looks like to the content analyzer:
\* a line with a frequent term, a function definition, a class, or neither
ToolContent(strategy, match) ==
    CASE strategy \in {"grep_search", "bm25_retrieval"} -> "term"
      [] strategy = "data_flow_analysis" -> IF match = "strong" THEN "class" ELSE "def"
      [] strategy = "dense_retrieval"    -> "def"
      [] strategy = "hybrid_retrieval"   -> "class"
      [] OTHER                           -> "plain"

\* number of results a tool finds for a query; for the empty query grep has
\* no search term and fuzzy_search divides by len(query_words) = 0, which it
\* catches per file
ToolHits(c, strategy, query) ==
    LET kind == IF strategy \in {"grep_search", "fuzzy_search"}
                THEN (IF query = "" THEN "none"
                      ELSE IF query = "original" THEN c.direct ELSE c.follow)
                ELSE IF strategy \in {"dense_retrieval", "bm25_retrieval", "hybrid_retrieval"}
                     THEN c.retrieval
                     ELSE c.structural
        n    == CASE kind = "none" -> 0 [] kind = "one" -> 1 [] OTHER -> BulkSize
    IN  IF strategy \in {"dense_retrieval", "bm25_retrieval", "hybrid_retrieval"}
        THEN Min(n, RetrievalTopK)
        ELSE n

\* SearchNode.__call__, the dispatch on the strategy name; a tool that
\* raises leaves results = []
SearchResults(c, strategy, query) ==
    IF strategy = c.broken
    THEN <<>>
    ELSE [i \in 1..ToolHits(c, strategy, query) |->
            [source  |-> ((i - 1) % c.files) + 1,
             score   |-> ToolScore(strategy, c.match),
             tool    |-> strategy,
             content |-> ToolContent(strategy, c.match)]]

(***************************************************************************)
(* AnalysisNode                                                            *)
(***************************************************************************)
\* the list comprehension "r.relevance_score >= state['similarity_threshold']"
FilterByThreshold(results, threshold) ==
    SelectSeq(results, LAMBDA r : r.score >= threshold)

RECURSIVE SortedDesc(_)
\* sorted(results, key=lambda x: x.relevance_score, reverse=True): a stable
\* sort, so the results of the highest score come first in their original
\* order, followed by the sorted rest
SortedDesc(results) ==
    IF results = <<>>
    THEN <<>>
    ELSE LET top == CHOOSE v \in {results[i].score : i \in DOMAIN results} :
                        \A i \in DOMAIN results : results[i].score <= v
         IN  SelectSeq(results, LAMBDA r : r.score = top)
             \o SortedDesc(SelectSeq(results, LAMBDA r : r.score < top))

\* RelevantResults without the fallback
RelevantResultsNoFallback(results, threshold) ==
    FilterByThreshold(results, threshold)

\* relevant_results of AnalysisNode.__call__: the filter and its fallback
RelevantResults(results, threshold) ==
    LET filtered == FilterByThreshold(results, threshold)
    IN  IF filtered = <<>>
        THEN SubSeq(SortedDesc(results), 1, Min(FallbackTop, Len(results)))
        ELSE filtered

\* SuggestFollowUps without the file-specific suggestion
SuggestFollowUpsNoFiles(results) ==
    LET termCount == Cardinality({i \in DOMAIN results : results[i].content = "term"})
        suggestions ==
            (IF termCount >= MinTermCount THEN <<"concepts">> ELSE <<>>)
            \o (IF \E i \in DOMAIN results : results[i].content = "def"
                THEN <<"functions">> ELSE <<>>)
            \o (IF \E i \in DOMAIN results : results[i].content = "class"
                THEN <<"classes">> ELSE <<>>)
    IN  SubSeq(suggestions, 1, Min(MaxSuggestions, Len(suggestions)))

\* ContentAnalyzer.suggest_follow_up_queries
SuggestFollowUps(results) ==
    LET termCount == Cardinality({i \in DOMAIN results : results[i].content = "term"})
        suggestions ==
            (IF termCount >= MinTermCount THEN <<"concepts">> ELSE <<>>)
            \o (IF results # <<>> THEN <<"files">> ELSE <<>>)
            \o (IF \E i \in DOMAIN results : results[i].content = "def"
                THEN <<"functions">> ELSE <<>>)
            \o (IF \E i \in DOMAIN results : results[i].content = "class"
                THEN <<"classes">> ELSE <<>>)
    IN  SubSeq(suggestions, 1, Min(MaxSuggestions, Len(suggestions)))

\* ShouldIterate without the test of the iteration counter
ShouldIterateNoBound(cur, maxIter, followUps, relevant) ==
    /\ followUps # <<>>
    /\ Len(relevant) < EnoughResults

\* ShouldIterate without the result-count test
ShouldIterateNoCap(cur, maxIter, followUps, relevant) ==
    /\ cur < maxIter
    /\ followUps # <<>>

\* ShouldIterate comparing the iteration counter with <=
ShouldIterateOffByOne(cur, maxIter, followUps, relevant) ==
    /\ cur <= maxIter
    /\ followUps # <<>>
    /\ Len(relevant) < EnoughResults

\* the "Decide next action" condition of AnalysisNode.__call__
ShouldIterate(cur, maxIter, followUps, relevant) ==
    /\ cur < maxIter
    /\ followUps # <<>>
    /\ Len(relevant) < EnoughResults

\* DeepResearchWorkflow._analysis_condition
AnalysisCondition(st) == IF st = "ITERATING" THEN "iteration" ELSE "synthesis"

\* DeepResearchWorkflow._search_condition
SearchCondition(pending) == IF pending # <<>> THEN "search" ELSE "analysis"

(***************************************************************************)
(* IterationNode                                                           *)
(***************************************************************************)
\* IterationStrategies adding the retrieval strategies one iteration early
IterationStrategiesEarly(n) ==
    <<"grep_search", "fuzzy_search">>
    \o (IF n >= 1 THEN <<"dense_retrieval", "bm25_retrieval">> ELSE <<>>)

\* the strategy queue IterationNode sets up for iteration number n
IterationStrategies(n) ==
    <<"grep_search", "fuzzy_search">>
    \o (IF n > 1 THEN <<"dense_retrieval", "bm25_retrieval">> ELSE <<>>)

(***************************************************************************)
(* SynthesisNode                                                           *)
(***************************************************************************)
RECURSIVE SumScores(_)
\* sum(r.relevance_score for r in state['all_results'])
SumScores(results) ==
    IF results = <<>> THEN 0
    ELSE IF Len(results) = 1 THEN results[1].score
    ELSE LET half == Len(results) \div 2
         IN  SumScores(SubSeq(results, 1, half))
             + SumScores(SubSeq(results, half + 1, Len(results)))

\* len(set(r.source for r in state['all_results']))
UniqueSources(results) == Cardinality({results[i].source : i \in DOMAIN results})

\* the confidence of an empty result list: confidence_factors = [0.1]
EmptyConfidence == <<1, 10>>

\* Confidence with no floor for an empty result list
ConfidenceNoFloor(results, iters) ==
    IF results # <<>>
    THEN LET n  == Len(results)
             f1 == Min(6 * SumScores(results), 30 * n)
             f2 == Min(10 * n * Len(iters), 30 * n)
             f3 == Min(3 * n * UniqueSources(results), 30 * n)
         IN  <<f1 + f2 + f3, 90 * n>>
    ELSE <<0, 1>>

\* SynthesisNode.__call__: sum(confidence_factors) / len(confidence_factors),
\* as a fraction over the denominator 90 * len(all_results)
Confidence(results, iters) ==
    IF results # <<>>
    THEN LET n  == Len(results)
             f1 == Min(6 * SumScores(results), 30 * n)       \* min(avg * 2, 1.0)
             f2 == Min(10 * n * Len(iters), 30 * n)          \* min(len(iterations) / 3, 1.0)
             f3 == Min(3 * n * UniqueSources(results), 30 * n) \* min(unique / 10, 1.0)
         IN  <<f1 + f2 + f3, 90 * n>>
    ELSE EmptyConfidence

(***************************************************************************)
(* run_research                                                            *)
(***************************************************************************)
\* BreakLoop with the safety check left out
BreakLoopOff(sc) == FALSE

\* "if step_count > 20: break"
BreakLoop(sc) == sc > StepCeiling

\* the body of "for state in app.stream(...)" for the node that has just
\* run: count the step, and leave the loop at the ceiling or at END
StreamStep(next) ==
    /\ step_count' = step_count + 1
    /\ node' = next
    /\ pc' = IF BreakLoop(step_count + 1) THEN "stopped"
             ELSE IF next = "END" THEN "ended" ELSE "streaming"

\* DeepResearchWorkflow._format_results
FormatResults ==
    [kind                   |-> "results",
     query                  |-> original_query,
     status                 |-> status,
     confidence_score       |-> confidence_score,
     total_results          |-> Len(all_results),
     iterations             |-> Len(iterations),
     files_analyzed         |-> UniqueSources(all_results),
     research_report        |-> research_report,
     search_strategies_used |-> completed_searches]

(***************************************************************************)
(* BM25RetrievalTool                                                       *)
(*                                                                         *)
(* A file is the sequence of its words (<<>>: missing or empty, which      *)
(* _read_file's callers treat alike).  BM25 scores are kept in thousandths *)
(* and avg_doc_length as the fraction <<total, count>>.                    *)
(***************************************************************************)
\* the paths of the workspace
Files == {"a.txt", "b.txt", "c.txt"}

\* what a file of the workspace holds
Contents ==
    { <<>>,
      <<"the", "quick", "fox">>,
      <<"the", "quick", "dog">>,
      <<"a", "Cat">>,
      <<"fox", "Fox", "dog">> }

\* the file lists index_documents is called with
Batches ==
    { <<"a.txt", "b.txt", "c.txt">>, <<"b.txt", "a.txt", "c.txt">>,
      <<"c.txt", "b.txt">>, <<"a.txt">>, <<"a.txt", "b.txt">> }

\* the queries of a lexical search, as their words
LexicalQueries ==
    { <<"fox">>, <<"Fox", "dog">>, <<"the">>, <<"a", "zebra">> }

\* the terms of the vocabulary and of the queries
Terms == {"the", "quick", "fox", "dog", "cat", "zebra", "where"}

\* text.lower()
Lower(w) ==
    CASE w = "A"   -> "a"
      [] w = "Fox" -> "fox"
      [] w = "Cat" -> "cat"
      [] OTHER     -> w

\* len(word) > 2
LongWord(w) == w \notin {"a", "is"}

\* BM25RetrievalTool._tokenize
Tokenize(words) ==
    SelectSeq([i \in DOMAIN words |-> Lower(words[i])], LongWord)

\* Counter(tokens)[term]
TokenCount(tokens, term) == Cardinality({i \in DOMAIN tokens : tokens[i] = term})

\* the position of a key of the documents dict, 0 when it is not a key
DocIndex(docs, id) ==
    IF \E i \in DOMAIN docs : docs[i].doc_id = id
    THEN CHOOSE i \in DOMAIN docs : docs[i].doc_id = id
    ELSE 0

\* self.documents[file_path] = tokens: a new key goes last, an old key
\* keeps its place
DictPut(docs, id, tokens) ==
    IF DocIndex(docs, id) = 0
    THEN Append(docs, [doc_id |-> id, tokens |-> tokens])
    ELSE [docs EXCEPT ![DocIndex(docs, id)].tokens = tokens]

RECURSIVE ReadBatch(_, _, _)
\* index_documents, "Read and tokenize documents": the loop over file_paths
\* from the state acc = [documents, doc_lengths, total_length]
ReadBatch(w, file_paths, acc) ==
    IF file_paths = <<>>
    THEN acc
    ELSE LET file_path == Head(file_paths)
             content   == w[file_path]
             tokens    == Tokenize(content)
         IN  ReadBatch(w, Tail(file_paths),
                 IF content # <<>>
                 THEN [documents    |-> DictPut(acc.documents, file_path, tokens),
                       doc_lengths  |-> [acc.doc_lengths EXCEPT ![file_path] = Len(tokens)],
                       total_length |-> acc.total_length + Len(tokens)]
                 ELSE acc)

\* the documents of the dict whose tokens hold the term
DocsWithTerm(docs, term) ==
    {i \in DOMAIN docs : TokenCount(docs[i].tokens, term) >= 1}

\* a BM25RetrievalTool as __init__ leaves it
EmptyIndex ==
    [documents            |-> <<>>,
     doc_lengths          |-> [f \in Files |-> 0],
     avg_doc_length       |-> <<0, 1>>,
     term_frequencies     |-> [t \in Terms |-> [f \in Files |-> 0]],
     document_frequencies |-> [t \in Terms |-> 0]]

\* BM25RetrievalTool.index_documents on the index ix over the workspace w;
\* a term frequency of 0 stands for a key that is not in the dict
IndexDocuments(ix, w, file_paths) ==
    LET read == ReadBatch(w, file_paths,
                    [documents    |-> ix.documents,
                     doc_lengths  |-> ix.doc_lengths,
                     total_length |-> 0])
        docs == read.documents
    IN  [documents            |-> docs,
         doc_lengths          |-> read.doc_lengths,
         avg_doc_length       |-> IF docs # <<>>
                                  THEN <<read.total_length, Len(docs)>>
                                  ELSE <<0, 1>>,
         term_frequencies     |->
             [t \in Terms |-> [f \in Files |->
                 IF DocIndex(docs, f) # 0
                    /\ TokenCount(docs[DocIndex(docs, f)].tokens, t) >= 1
                 THEN TokenCount(docs[DocIndex(docs, f)].tokens, t)
                 ELSE ix.term_frequencies[t][f]]],
         document_frequencies |->
             [t \in Terms |->
                 ix.document_frequencies[t] + Cardinality(DocsWithTerm(docs, t))]]

\* math.log of an odd number of halves, in thousandths: 1000 * ln(n)
LnMilli(n) ==
    CASE n = 1 -> 0
      [] n = 3 -> 1099
      [] n = 5 -> 1609
      [] n = 7 -> 1946
      [] n = 9 -> 2197

\* "term in self.term_frequencies and doc_id in self.term_frequencies[term]"
TermInDoc(ix, term, doc_id) == ix.term_frequencies[term][doc_id] > 0

\* the idf and BM25 formula lines of search for one term of one document,
\* with k1 = 1.5 and b = 0.75, in thousandths
TermScore(ix, term, doc_id) ==
    LET tf  == ix.term_frequencies[term][doc_id]
        df  == ix.document_frequencies[term]
        idf == LnMilli(2 * Len(ix.documents) - 2 * df + 1) - LnMilli(2 * df + 1)
        tot == ix.avg_doc_length[1]
        cnt == ix.avg_doc_length[2]
    IN  (idf * 20 * tf * tot)
        \div (8 * tf * tot + 3 * tot + 9 * ix.doc_lengths[doc_id] * cnt)

\* the same lines raise: math.log of a number <= 0 (ValueError) or the
\* division by avg_doc_length = 0 (ZeroDivisionError)
TermRaises(ix, term, doc_id) ==
    \/ ix.document_frequencies[term] > Len(ix.documents)
    \/ ix.avg_doc_length[1] = 0

RECURSIVE BM25Score(_, _, _)
\* the score search accumulates for a document over the query terms
BM25Score(ix, query_terms, doc_id) ==
    IF query_terms = <<>>
    THEN 0
    ELSE (IF TermInDoc(ix, Head(query_terms), doc_id)
          THEN TermScore(ix, Head(query_terms), doc_id)
          ELSE 0)
         + BM25Score(ix, Tail(query_terms), doc_id)

\* BM25RetrievalTool.search; relevance_score = min(score / 10.0, 1.0) is kept
\* in ten-thousandths
BM25Search(ix, w, query, top_k) ==
    LET query_terms == Tokenize(query)
        docs        == ix.documents
    IN  IF docs = <<>>
        THEN [outcome |-> "ok", results |-> <<>>]
        ELSE IF \E i \in DOMAIN docs, k \in DOMAIN query_terms :
                    /\ TermInDoc(ix, query_terms[k], docs[i].doc_id)
                    /\ TermRaises(ix, query_terms[k], docs[i].doc_id)
        THEN [outcome |-> "raised", results |-> <<>>]
        ELSE LET scored      == [i \in DOMAIN docs |->
                                    [source |-> docs[i].doc_id,
                                     score  |-> BM25Score(ix, query_terms, docs[i].doc_id)]]
                 sorted_docs == SortedDesc(SelectSeq(scored, LAMBDA r : r.score > 0))
                 top         == SubSeq(sorted_docs, 1, Min(top_k, Len(sorted_docs)))
                 readable    == SelectSeq(top, LAMBDA r : w[r.source] # <<>>)
             IN  [outcome |-> "ok",
                  results |-> [i \in DOMAIN readable |->
                                 [source          |-> readable[i].source,
                                  bm25_score      |-> readable[i].score,
                                  relevance_score |-> Min(readable[i].score, 10000)]]]

\* the lexical index of a SearchNode before its first use
BM25Idle ==
    /\ workspace = [f \in Files |-> <<>>]
    /\ bm25_tool = "None"
    /\ documents = EmptyIndex.documents
    /\ doc_lengths = EmptyIndex.doc_lengths
    /\ avg_doc_length = EmptyIndex.avg_doc_length
    /\ term_frequencies = EmptyIndex.term_frequencies
    /\ document_frequencies = EmptyIndex.document_frequencies
    /\ index_calls = <<>>
    /\ bm25_query = <<>>
    /\ bm25_top_k = 0
    /\ bm25_results = [outcome |-> "none", results |-> <<>>]
    /\ run_count = 0

\* a content extraction node that has not been given files
ExtractIdle ==
    /\ discovered_files = <<>>
    /\ max_concurrent_files = 10
    /\ batch_start = 0
    /\ extracted_content = <<>>
    /\ state_extracted = <<>>
    /\ extraction_stats = [kind |-> "none"]
    /\ extract_pc = "idle"

\* no hybrid search has been made
HybridIdle ==
    /\ dense_results = <<>>
    /\ sparse_results = <<>>
    /\ hybrid_top_k = 0
    /\ hybrid_results = [outcome |-> "none", results |-> <<>>]

\* no text is being chunked
ChunkIdle ==
    /\ chunk_by = "none"
    /\ text = <<>>
    /\ chunk_size = 1
    /\ overlap = 0
    /\ start_idx = 0
    /\ chunk_id = 0
    /\ chunks = <<>>
    /\ chunk_pc = "idle"

\* a DenseRetrievalTool that has not been used
DenseIdle ==
    /\ dense_files = [f \in Files |-> <<>>]
    /\ document_cache = [exists |-> FALSE, documents |-> <<>>, vocabulary |-> {}]
    /\ dense_documents = <<>>
    /\ dense_vocabulary = {}
    /\ idf_scores = [t \in Terms |-> 0]
    /\ embeddings = <<>>
    /\ vector_query = <<>>
    /\ vector_results = [outcome |-> "none", results |-> <<>>]

\* a DeepResearchWorkflow whose run_research has not been called
PipeIdle ==
    /\ run_inputs = [directory_path |-> "missing", query |-> FALSE]
    /\ node_state = [discovered_files |-> "None", extracted_content |-> "None", analyzed_content |-> "None", research_findings |-> "None", final_report |-> "None", errors |-> <<>>, warnings |-> <<>>, node_history |-> <<>>]
    /\ pipe_pc = 0
    /\ process_calls = {}
    /\ run_result = "none"

\* a DatabaseManager over a new database
VersionIdle ==
    /\ prompt_versions = <<>>
    /\ db_result = [call |-> "none", prompt_id |-> 0, version_number |-> 0, raised |-> FALSE]

\* create_initial_state, for a workflow built with any max_iterations and
\* similarity_threshold over any workspace
Init ==
    /\ original_query \in Queries
    /\ current_query = IF original_query.words = 0 THEN "" ELSE "original"
    /\ iterations = <<>>
    /\ current_iteration = 0
    /\ status = "PLANNING"
    /\ all_results = <<>>
    /\ search_strategies = <<>>
    /\ completed_searches = <<>>
    /\ pending_searches = <<>>
    /\ research_report = "None"
    /\ confidence_score = <<0, 1>>
    /\ max_iterations \in 0..MaxIterBound
    /\ similarity_threshold \in Thresholds
    /\ corpus \in Corpora
    /\ node = "planning"
    /\ step_count = 0
    /\ pc = "streaming"
    /\ returned = [kind |-> "none"]
    /\ iterCycles = 0
    /\ searchPhases = 0
    /\ ranSynthesis = FALSE
    /\ BM25Idle
    /\ ExtractIdle
    /\ HybridIdle
    /\ ChunkIdle
    /\ DenseIdle
    /\ PipeIdle
    /\ VersionIdle

\* PlanningNode.__call__
Planning ==
    /\ pc = "streaming" /\ node = "planning"
    /\ search_strategies' = PlanStrategies(original_query)
    /\ pending_searches' = PlanStrategies(original_query)
    /\ status' = "SEARCHING"
    /\ current_iteration' = 0
    /\ searchPhases' = searchPhases + 1
    /\ StreamStep("search")
    /\ UNCHANGED <<original_query, current_query, iterations, all_results,
                   completed_searches, research_report, confidence_score,
                   max_iterations, similarity_threshold, corpus, returned,
                   iterCycles, ranSynthesis>>
    /\ UNCHANGED toolVars

\* Search assigning the new results instead of extending the list
SearchReplacesResults ==
    /\ pc = "streaming" /\ node = "search"
    /\ IF pending_searches = <<>>
       THEN /\ status' = "ANALYZING"
            /\ UNCHANGED <<pending_searches, completed_searches, all_results>>
       ELSE LET strategy == Head(pending_searches)
            IN  /\ pending_searches' = Tail(pending_searches)
                /\ completed_searches' = Append(completed_searches, strategy)
                /\ all_results' = SearchResults(corpus, strategy, current_query)
                /\ status' = IF Tail(pending_searches) # <<>> THEN status ELSE "ANALYZING"
    /\ StreamStep(SearchCondition(pending_searches'))
    /\ UNCHANGED <<original_query, current_query, iterations, current_iteration,
                   search_strategies, research_report, confidence_score,
                   max_iterations, similarity_threshold, corpus, returned,
                   iterCycles, searchPhases, ranSynthesis>>
    /\ UNCHANGED toolVars

\* SearchNode.__call__
Search ==
    /\ pc = "streaming" /\ node = "search"
    /\ IF pending_searches = <<>>
       THEN /\ status' = "ANALYZING"
            /\ UNCHANGED <<pending_searches, completed_searches, all_results>>
       ELSE LET strategy == Head(pending_searches)
            IN  /\ pending_searches' = Tail(pending_searches)
                /\ completed_searches' = Append(completed_searches, strategy)
                /\ all_results' =
                       all_results \o SearchResults(corpus, strategy, current_query)
                /\ status' = IF Tail(pending_searches) # <<>> THEN status ELSE "ANALYZING"
    /\ StreamStep(SearchCondition(pending_searches'))
    /\ UNCHANGED <<original_query, current_query, iterations, current_iteration,
                   search_strategies, research_report, confidence_score,
                   max_iterations, similarity_threshold, corpus, returned,
                   iterCycles, searchPhases, ranSynthesis>>
    /\ UNCHANGED toolVars

\* AnalysisNode.__call__
Analysis ==
    /\ pc = "streaming" /\ node = "analysis"
    /\ IF all_results = <<>>
       THEN /\ status' = "COMPLETED"
            /\ research_report' = "No relevant results found"
            /\ UNCHANGED iterations
       ELSE LET relevant  == RelevantResults(all_results, similarity_threshold)
                followUps == SuggestFollowUps(relevant)
            IN  /\ iterations' = Append(iterations,
                       [iteration_number    |-> current_iteration,
                        query               |-> current_query,
                        results             |-> relevant,
                        follow_up_questions |-> followUps,
                        status              |-> "ANALYZING"])
                /\ status' = IF ShouldIterate(current_iteration, max_iterations,
                                              followUps, relevant)
                             THEN "ITERATING" ELSE "SYNTHESIZING"
                /\ UNCHANGED research_report
    /\ StreamStep(AnalysisCondition(status'))
    /\ UNCHANGED <<original_query, current_query, current_iteration, all_results,
                   search_strategies, completed_searches, pending_searches,
                   confidence_score, max_iterations, similarity_threshold,
                   corpus, returned, iterCycles, searchPhases, ranSynthesis>>
    /\ UNCHANGED toolVars

\* Iteration leaving current_iteration as it is
IterationKeepsCounter ==
    /\ pc = "streaming" /\ node = "iteration"
    /\ IF iterations = <<>>
       THEN /\ status' = "SYNTHESIZING"
            /\ UNCHANGED <<current_query, current_iteration, pending_searches,
                           completed_searches, iterCycles, searchPhases>>
       ELSE LET last_iteration == iterations[Len(iterations)]
            IN  IF last_iteration.follow_up_questions # <<>>
                THEN /\ current_query' = Head(last_iteration.follow_up_questions)
                     /\ current_iteration' = current_iteration
                     /\ pending_searches' = IterationStrategies(current_iteration + 1)
                     /\ completed_searches' = <<>>
                     /\ status' = "SEARCHING"
                     /\ iterCycles' = iterCycles + 1
                     /\ searchPhases' = searchPhases + 1
                ELSE /\ status' = "SYNTHESIZING"
                     /\ UNCHANGED <<current_query, current_iteration,
                                    pending_searches, completed_searches,
                                    iterCycles, searchPhases>>
    /\ StreamStep("search")
    /\ UNCHANGED <<original_query, iterations, all_results, search_strategies,
                   research_report, confidence_score, max_iterations,
                   similarity_threshold, corpus, returned, ranSynthesis>>
    /\ UNCHANGED toolVars

\* IterationNode.__call__
Iteration ==
    /\ pc = "streaming" /\ node = "iteration"
    /\ IF iterations = <<>>
       THEN /\ status' = "SYNTHESIZING"
            /\ UNCHANGED <<current_query, current_iteration, pending_searches,
                           completed_searches, iterCycles, searchPhases>>
       ELSE LET last_iteration == iterations[Len(iterations)]
            IN  IF last_iteration.follow_up_questions # <<>>
                THEN /\ current_query' = Head(last_iteration.follow_up_questions)
                     /\ current_iteration' = current_iteration + 1
                     /\ pending_searches' = IterationStrategies(current_iteration + 1)
                     /\ completed_searches' = <<>>
                     /\ status' = "SEARCHING"
                     /\ iterCycles' = iterCycles + 1
                     /\ searchPhases' = searchPhases + 1
                ELSE /\ status' = "SYNTHESIZING"
                     /\ UNCHANGED <<current_query, current_iteration,
                                    pending_searches, completed_searches,
                                    iterCycles, searchPhases>>
    /\ StreamStep("search")
    /\ UNCHANGED <<original_query, iterations, all_results, search_strategies,
                   research_report, confidence_score, max_iterations,
                   similarity_threshold, corpus, returned, ranSynthesis>>
    /\ UNCHANGED toolVars

\* SynthesisNode.__call__
Synthesis ==
    /\ pc = "streaming" /\ node = "synthesis"
    /\ confidence_score' = Confidence(all_results, iterations)
    /\ status' = "COMPLETED"
    /\ ranSynthesis' = TRUE
    /\ StreamStep("report")
    /\ UNCHANGED <<original_query, current_query, iterations, current_iteration,
                   all_results, search_strategies, completed_searches,
                   pending_searches, research_report, max_iterations,
                   similarity_threshold, corpus, returned, iterCycles,
                   searchPhases>>
    /\ UNCHANGED toolVars

\* ReportNode.__call__
Report ==
    /\ pc = "streaming" /\ node = "report"
    /\ research_report' = "Deep Research Report"
    /\ StreamStep("END")
    /\ UNCHANGED <<original_query, current_query, iterations, current_iteration,
                   status, all_results, search_strategies, completed_searches,
                   pending_searches, confidence_score, max_iterations,
                   similarity_threshold, corpus, returned, iterCycles,
                   searchPhases, ranSynthesis>>
    /\ UNCHANGED toolVars

\* run_research after the loop: "return self._format_results(final_state)"
Return ==
    /\ pc \in {"stopped", "ended"}
    /\ returned' = FormatResults
    /\ pc' = "returned"
    /\ UNCHANGED <<original_query, current_query, iterations, current_iteration,
                   status, all_results, search_strategies, completed_searches,
                   pending_searches, research_report, confidence_score,
                   max_iterations, similarity_threshold, corpus, node,
                   step_count, iterCycles, searchPhases, ranSynthesis>>
    /\ UNCHANGED toolVars

Next ==
    \/ Planning
    \/ Search
    \/ Analysis
    \/ Iteration
    \/ Synthesis
    \/ Report
    \/ Return

Spec == Init /\ [][Next]_vars

(***************************************************************************)
(* The lexical index used on its own                                       *)
(***************************************************************************)
\* the research controller at rest
CtlIdle ==
    /\ original_query = [structure |-> FALSE, config |-> FALSE, data |-> FALSE, words |-> 0]
    /\ current_query = ""
    /\ iterations = <<>>
    /\ current_iteration = 0
    /\ status = "PLANNING"
    /\ all_results = <<>>
    /\ search_strategies = <<>>
    /\ completed_searches = <<>>
    /\ pending_searches = <<>>
    /\ research_report = "None"
    /\ confidence_score = <<0, 1>>
    /\ max_iterations = 0
    /\ similarity_threshold = 3
    /\ corpus = [direct |-> "none", follow |-> "none", retrieval |-> "none",
                 structural |-> "none", match |-> "weak", files |-> 1,
                 broken |-> "none"]
    /\ node = "none"
    /\ step_count = 0
    /\ pc = "idle"
    /\ returned = [kind |-> "none"]
    /\ iterCycles = 0
    /\ searchPhases = 0
    /\ ranSynthesis = FALSE

\* the fields of the BM25RetrievalTool
TheIndex ==
    [documents            |-> documents,
     doc_lengths          |-> doc_lengths,
     avg_doc_length       |-> avg_doc_length,
     term_frequencies     |-> term_frequencies,
     document_frequencies |-> document_frequencies]

\* the fields of the BM25RetrievalTool become those of ix
SetIndex(ix) ==
    /\ documents' = ix.documents
    /\ doc_lengths' = ix.doc_lengths
    /\ avg_doc_length' = ix.avg_doc_length
    /\ term_frequencies' = ix.term_frequencies
    /\ document_frequencies' = ix.document_frequencies

\* a BM25RetrievalTool constructed over any workspace
InitBM25 ==
    /\ CtlIdle
    /\ workspace \in [Files -> Contents]
    /\ bm25_tool = "built"
    /\ documents = EmptyIndex.documents
    /\ doc_lengths = EmptyIndex.doc_lengths
    /\ avg_doc_length = EmptyIndex.avg_doc_length
    /\ term_frequencies = EmptyIndex.term_frequencies
    /\ document_frequencies = EmptyIndex.document_frequencies
    /\ index_calls = <<>>
    /\ bm25_query = <<>>
    /\ bm25_top_k = 0
    /\ bm25_results = [outcome |-> "none", results |-> <<>>]
    /\ run_count = 0
    /\ ExtractIdle
    /\ HybridIdle
    /\ ChunkIdle
    /\ DenseIdle
    /\ PipeIdle
    /\ VersionIdle

\* a call of BM25RetrievalTool.index_documents
BM25Index ==
    \E file_paths \in Batches :
        /\ Len(index_calls) < MaxIndexCalls
        /\ SetIndex(IndexDocuments(TheIndex, workspace, file_paths))
        /\ index_calls' = Append(index_calls, file_paths)
        /\ UNCHANGED <<workspace, bm25_tool, bm25_query, bm25_top_k,
                       bm25_results, run_count>>
        /\ UNCHANGED notBM25

\* a call of BM25RetrievalTool.search
BM25Query ==
    \E query \in LexicalQueries, top_k \in {1, RetrievalTopK} :
        /\ bm25_query' = query
        /\ bm25_top_k' = top_k
        /\ bm25_results' = BM25Search(TheIndex, workspace, query, top_k)
        /\ UNCHANGED <<workspace, bm25_tool, documents, doc_lengths,
                       avg_doc_length, term_frequencies, document_frequencies,
                       index_calls, run_count>>
        /\ UNCHANGED notBM25

NextBM25 ==
    \/ BM25Index
    \/ BM25Query

SpecBM25 == InitBM25 /\ [][NextBM25]_vars

(***************************************************************************)
(* Research runs on one workflow object, as far as the lexical index goes  *)
(***************************************************************************)
\* the queries of the runs: more than three words, so that PlanningNode
\* plans bm25_retrieval
RunQueries ==
    { <<"where", "is", "the", "fox">>, <<"where", "is", "the", "dog">> }

\* PlanningNode.__call__: state['discovered_files'], the files the workspace
\* holds
Discovered(w) ==
    SelectSeq(<<"a.txt", "b.txt", "c.txt">>, LAMBDA f : w[f] # <<>>)

\* a DeepResearchWorkflow constructed over any workspace
InitRuns ==
    /\ CtlIdle
    /\ workspace \in [Files -> Contents]
    /\ bm25_tool = "None"
    /\ documents = EmptyIndex.documents
    /\ doc_lengths = EmptyIndex.doc_lengths
    /\ avg_doc_length = EmptyIndex.avg_doc_length
    /\ term_frequencies = EmptyIndex.term_frequencies
    /\ document_frequencies = EmptyIndex.document_frequencies
    /\ index_calls = <<>>
    /\ bm25_query = <<>>
    /\ bm25_top_k = 0
    /\ bm25_results = [outcome |-> "none", results |-> <<>>]
    /\ run_count = 0
    /\ ExtractIdle
    /\ HybridIdle
    /\ ChunkIdle
    /\ DenseIdle
    /\ PipeIdle
    /\ VersionIdle

\* SearchNode._bm25_retrieval_search in the next run of run_research
BM25RetrievalSearch ==
    \E query \in RunQueries :
        LET ix == IF bm25_tool = "None"
                  THEN IndexDocuments(EmptyIndex, workspace, Discovered(workspace))
                  ELSE TheIndex
        IN  /\ run_count < MaxRuns
            /\ bm25_tool' = "built"
            /\ SetIndex(ix)
            /\ index_calls' = IF bm25_tool = "None"
                              THEN Append(index_calls, Discovered(workspace))
                              ELSE index_calls
            /\ bm25_query' = query
            /\ bm25_top_k' = RetrievalTopK
            /\ bm25_results' = BM25Search(ix, workspace, query, RetrievalTopK)
            /\ run_count' = run_count + 1
            /\ UNCHANGED workspace
            /\ UNCHANGED notBM25

\* between two runs a file of the workspace is written, created or removed
EditWorkspace ==
    \E f \in Files, content \in Contents :
        /\ run_count >= 1 /\ run_count < MaxRuns
        /\ workspace[f] # content
        /\ workspace' = [workspace EXCEPT ![f] = content]
        /\ UNCHANGED <<bm25_tool, documents, doc_lengths, avg_doc_length,
                       term_frequencies, document_frequencies, index_calls,
                       bm25_query, bm25_top_k, bm25_results, run_count>>
        /\ UNCHANGED notBM25

NextRuns ==
    \/ BM25RetrievalSearch
    \/ EditWorkspace

SpecRuns == InitRuns /\ [][NextRuns]_vars

(***************************************************************************)
(* ContentExtractionNode (src/roma)                                        *)
(***************************************************************************)
\* what reading and parsing a discovered file comes to:
\*   text            read_file_async succeeds, category "text"
\*   text_unreadable category "text", the read fails (success False)
\*   document        category "document", parse_document succeeds
\*   document_broken category "document", parse_document reports a failure
\*   unsupported     read_file_async returns "Unsupported file type"
\*   raises          read_file_async raises
FileKinds ==
    {"text", "text_unreadable", "document", "document_broken", "unsupported",
     "raises"}

\* the values of max_concurrent_files (10 is the default)
BatchSizes == {1, 2, 10}

\* the lists of discovered files: file number n holds the content n
FileLists ==
    UNION { [1..n -> FileKinds] : n \in 1..MaxDiscovered }

\* FileHandler.read_file_async
ReadFileAsync(kind) ==
    CASE kind = "raises"          -> [raised |-> TRUE,  success |-> FALSE, category |-> "unknown"]
      [] kind = "text"            -> [raised |-> FALSE, success |-> TRUE,  category |-> "text"]
      [] kind = "text_unreadable" -> [raised |-> FALSE, success |-> FALSE, category |-> "text"]
      [] kind = "unsupported"     -> [raised |-> FALSE, success |-> FALSE, category |-> "application"]
      [] OTHER                    -> [raised |-> FALSE, success |-> TRUE,  category |-> "document"]

\* DocumentParser.parse_document: doc_result.get("success", False)
ParseDocument(kind) == kind = "document"

\* the failure record of _extract_single_file
FailureRecord(path) ==
    [file_path |-> path, success |-> FALSE, content |-> 0, extraction_method |-> "none"]

\* ContentExtractionNode._extract_single_file for the file number path
ExtractSingleFile(path, kind) ==
    LET file_result == ReadFileAsync(kind)
    IN  IF file_result.raised
        THEN FailureRecord(path)
        ELSE IF file_result.success /\ file_result.category = "text"
        THEN [file_path |-> path, success |-> TRUE, content |-> path,
              extraction_method |-> "text_reader"]
        ELSE IF file_result.category = "document"
        THEN (IF ParseDocument(kind)
              THEN [file_path |-> path, success |-> TRUE, content |-> path,
                    extraction_method |-> "document_parser"]
              ELSE FailureRecord(path))
        ELSE FailureRecord(path)

\* ProcessFileBatch keeping only the records of the files that were read
ProcessFileBatchDropFailed(files, first, last) ==
    SelectSeq([i \in 1..(last - first + 1) |->
                  ExtractSingleFile(first + i - 1, files[first + i - 1])],
              LAMBDA r : r.success)

\* ContentExtractionNode._process_file_batch for the files first..last:
\* asyncio.gather returns the results in the order of the tasks
ProcessFileBatch(files, first, last) ==
    [i \in 1..(last - first + 1) |->
        ExtractSingleFile(first + i - 1, files[first + i - 1])]

\* a content extraction node given any non-empty list of files
InitExtract ==
    /\ CtlIdle
    /\ BM25Idle
    /\ HybridIdle
    /\ discovered_files \in FileLists
    /\ max_concurrent_files \in BatchSizes
    /\ batch_start = 0
    /\ extracted_content = <<>>
    /\ state_extracted = <<>>
    /\ extraction_stats = [kind |-> "none"]
    /\ extract_pc = "batches"
    /\ ChunkIdle
    /\ DenseIdle
    /\ PipeIdle
    /\ VersionIdle

\* ContentExtractionNode.process: one pass of the loop over the batches,
\* and after the last batch the rest of process
Process ==
    /\ extract_pc = "batches"
    /\ LET last    == Min(batch_start + max_concurrent_files, Len(discovered_files))
           content == extracted_content
                      \o ProcessFileBatch(discovered_files, batch_start + 1, last)
           successful_extractions == SelectSeq(content, LAMBDA r : r.success)
           failed_extractions     == SelectSeq(content, LAMBDA r : ~r.success)
       IN  /\ extracted_content' = content
           /\ batch_start' = batch_start + max_concurrent_files
           /\ IF batch_start + max_concurrent_files < Len(discovered_files)
              THEN UNCHANGED <<state_extracted, extraction_stats, extract_pc>>
              ELSE /\ state_extracted' = successful_extractions
                   /\ extraction_stats' =
                          [kind                   |-> "stats",
                           total_files            |-> Len(discovered_files),
                           successful_extractions |-> Len(successful_extractions),
                           failed_extractions     |-> Len(failed_extractions),
                           success_rate           |-> <<Len(successful_extractions),
                                                        Len(discovered_files)>>]
                   /\ extract_pc' = "done"
    /\ UNCHANGED <<discovered_files, max_concurrent_files>>
    /\ UNCHANGED notExtract

NextExtract == Process

SpecExtract == InitExtract /\ [][NextExtract]_vars

(***************************************************************************)
(* HybridRetrievalTool                                                     *)
(*                                                                         *)
(* The scores of the sub-searches are in tenths, the fused score in        *)
(* hundredths.                                                             *)
(***************************************************************************)
\* HybridRetrievalTool.__init__: dense_weight = 0.6, sparse_weight = 0.4,
\* in tenths
DenseWeight == 6
SparseWeight == 4

\* the similarities DenseRetrievalTool.search reports
DenseScores == {2, 9}

\* the relevance scores BM25RetrievalTool.search reports
SparseScores == {3, 8}

\* a result list is in non-increasing order of score
NonIncreasing(results) ==
    \A i \in 1..(Len(results) - 1) : results[i].score >= results[i + 1].score

\* what DenseRetrievalTool.search(query, limit) can return: chunks in
\* descending order of similarity, several of them may be of one file
DenseHits(limit) ==
    {r \in UNION {[1..n -> [source : Files, score : DenseScores]] : n \in 0..limit} :
        NonIncreasing(r)}

\* what BM25RetrievalTool.search(query, limit) can return: documents in
\* descending order of score, each once
SparseHits(limit) ==
    {r \in UNION {[1..n -> [source : Files, score : SparseScores]] : n \in 0..limit} :
        /\ NonIncreasing(r)
        /\ \A i, j \in DOMAIN r : i # j => r[i].source # r[j].source}

RECURSIVE CombinedKeys(_, _)
\* the keys of combined_scores in dict order, after the results were added
\* to the keys seen
CombinedKeys(seen, results) ==
    IF results = <<>>
    THEN seen
    ELSE CombinedKeys(
             IF \E i \in DOMAIN seen : seen[i] = Head(results).source
             THEN seen
             ELSE Append(seen, Head(results).source),
             Tail(results))

\* combined_scores[key]["dense_score"] or ["sparse_score"] after the loop
\* over results: each result of the key assigns it, 0 when there is none
AssignedScore(results, key) ==
    LET at == {i \in DOMAIN results : results[i].source = key}
    IN  IF at = {}
        THEN 0
        ELSE results[CHOOSE i \in at : \A j \in at : j <= i].score

\* the hybrid_results list before it is sorted
FusedResults(dense, sparse) ==
    LET keys == CombinedKeys(CombinedKeys(<<>>, dense), sparse)
    IN  [i \in DOMAIN keys |->
            [source       |-> keys[i],
             dense_score  |-> AssignedScore(dense, keys[i]),
             sparse_score |-> AssignedScore(sparse, keys[i]),
             score        |-> DenseWeight * AssignedScore(dense, keys[i])
                              + SparseWeight * AssignedScore(sparse, keys[i])]]

\* HybridSearch returning the whole sorted list
HybridSearchNoCut(dense, sparse, top_k) ==
    SortedDesc(FusedResults(dense, sparse))

\* HybridRetrievalTool.search from the results of the two sub-searches
HybridSearch(dense, sparse, top_k) ==
    LET sorted == SortedDesc(FusedResults(dense, sparse))
    IN  SubSeq(sorted, 1, Min(top_k, Len(sorted)))

\* a hybrid search with any top_k, the sub-searches having returned any
\* lists of at most top_k * 2 results
InitHybrid ==
    /\ CtlIdle
    /\ BM25Idle
    /\ ExtractIdle
    /\ hybrid_top_k \in 1..MaxTopK
    /\ dense_results \in DenseHits(Min(hybrid_top_k * 2, MaxHits))
    /\ sparse_results \in SparseHits(Min(hybrid_top_k * 2, MaxHits))
    /\ hybrid_results = [outcome |-> "none", results |-> <<>>]
    /\ ChunkIdle
    /\ DenseIdle
    /\ PipeIdle
    /\ VersionIdle

\* HybridRetrievalTool.search
HybridQuery ==
    /\ hybrid_results.outcome = "none"
    /\ hybrid_results' =
           [outcome |-> "ok",
            results |-> HybridSearch(dense_results, sparse_results, hybrid_top_k)]
    /\ UNCHANGED <<dense_results, sparse_results, hybrid_top_k>>
    /\ UNCHANGED notHybrid

NextHybrid == HybridQuery

SpecHybrid == InitHybrid /\ [][NextHybrid]_vars

(***************************************************************************)
(* TextProcessor.chunk_text (src/roma)                                     *)
(*                                                                         *)
(* A text is the sequence of its characters: the letter "A", the blank and *)
(* the full stop.                                                          *)
(***************************************************************************)
Max(a, b) == IF a >= b THEN a ELSE b

\* the texts that are chunked
Texts == UNION { [1..n -> {"A", " ", "."}] : n \in 1..MaxTextLen }

\* the chunk_by methods
ChunkMethods == {"characters", "words", "sentences"}

RECURSIVE Strip(_)
\* str.strip()
Strip(t) ==
    IF t = <<>> THEN <<>>
    ELSE IF Head(t) = " " THEN Strip(Tail(t))
    ELSE IF t[Len(t)] = " " THEN Strip(SubSeq(t, 1, Len(t) - 1))
    ELSE t

RECURSIVE FindWords(_, _, _)
\* re.findall(r'\b\w+\b', text.lower()): the runs of letters of t, after
\* the run cur and the words acc found so far
FindWords(t, cur, acc) ==
    IF t = <<>>
    THEN (IF cur = <<>> THEN acc ELSE Append(acc, cur))
    ELSE IF Head(t) \in {" ", "."}
    THEN FindWords(Tail(t), <<>>, IF cur = <<>> THEN acc ELSE Append(acc, cur))
    ELSE FindWords(Tail(t), Append(cur, Lower(Head(t))), acc)

\* TextProcessor.tokenize_words(text, remove_stop_words=False)
TokenizeWords(t) == FindWords(t, <<>>, <<>>)

RECURSIVE SplitSentences(_, _, _)
\* re.split(r'[.!?]+', text), stripped, without the empty pieces
SplitSentences(t, cur, acc) ==
    IF t = <<>>
    THEN (IF Strip(cur) = <<>> THEN acc ELSE Append(acc, Strip(cur)))
    ELSE IF Head(t) = "."
    THEN SplitSentences(Tail(t), <<>>,
                        IF Strip(cur) = <<>> THEN acc ELSE Append(acc, Strip(cur)))
    ELSE SplitSentences(Tail(t), Append(cur, Head(t)), acc)

\* TextProcessor.tokenize_sentences
TokenizeSentences(t) == SplitSentences(t, <<>>, <<>>)

\* what the loop of the method runs over: the characters, the words or the
\* sentences of the text
Units(method, t) ==
    CASE method = "words"     -> TokenizeWords(t)
      [] method = "sentences" -> TokenizeSentences(t)
      [] OTHER                -> t

\* text.rfind(' ', start, end), with 0-based positions
RFindSpace(t, start, end) ==
    LET at == {i \in start..(end - 1) : t[i + 1] = " "}
    IN  IF at = {} THEN -1 ELSE CHOOSE i \in at : \A j \in at : j <= i

\* the end of the chunk that starts at start
ChunkEnd(method, t, start, size) ==
    LET units == Units(method, t)
        end   == Min(start + size, Len(units))
    IN  IF method = "characters" /\ end < Len(t) /\ RFindSpace(t, start, end) > start
        THEN RFindSpace(t, start, end)
        ELSE end

\* the content of the chunk start..end: text[start:end].strip() or the
\* joined words or sentences, kept as their sequence
ChunkContent(method, t, start, end) ==
    IF method = "characters"
    THEN Strip(SubSeq(t, start + 1, end))
    ELSE SubSeq(Units(method, t), start + 1, end)

\* NextStart leaving a gap after the chunk
NextStartSkipping(start, end, lap) == Max(start + 1, end + 1 - lap)

\* NextStart stepping back by the overlap whatever the chunk size
NextStartNoProgress(start, end, lap) == end - lap

\* "start_idx = max(start_idx + 1, end_idx - overlap)"
NextStart(start, end, lap) == Max(start + 1, end - lap)

\* a chunk_text call with any non-empty text, method, chunk_size and overlap
InitChunk ==
    /\ CtlIdle
    /\ BM25Idle
    /\ ExtractIdle
    /\ HybridIdle
    /\ chunk_by \in ChunkMethods
    /\ text \in Texts
    /\ chunk_size \in 1..MaxChunkSize
    /\ overlap \in 0..MaxOverlap
    /\ start_idx = 0
    /\ chunk_id = 0
    /\ chunks = <<>>
    /\ chunk_pc = "loop"
    /\ DenseIdle
    /\ PipeIdle
    /\ VersionIdle

\* one pass of the while loop of _chunk_by_characters, _chunk_by_words or
\* _chunk_by_sentences
ChunkStep ==
    /\ chunk_pc = "loop"
    /\ start_idx < Len(Units(chunk_by, text))
    /\ LET end     == ChunkEnd(chunk_by, text, start_idx, chunk_size)
           content == ChunkContent(chunk_by, text, start_idx, end)
       IN  /\ IF content # <<>>
              THEN /\ chunks' = Append(chunks,
                                       [content        |-> content,
                                        start_position |-> start_idx,
                                        end_position   |-> end,
                                        chunk_id       |-> chunk_id])
                   /\ chunk_id' = chunk_id + 1
              ELSE UNCHANGED <<chunks, chunk_id>>
           /\ start_idx' = NextStart(start_idx, end, overlap)
    /\ UNCHANGED <<chunk_by, text, chunk_size, overlap, chunk_pc>>
    /\ UNCHANGED notChunk

\* the loop condition fails: "return chunks"
ChunkReturn ==
    /\ chunk_pc = "loop"
    /\ start_idx >= Len(Units(chunk_by, text))
    /\ chunk_pc' = "done"
    /\ UNCHANGED <<chunk_by, text, chunk_size, overlap, start_idx, chunk_id, chunks>>
    /\ UNCHANGED notChunk

NextChunk ==
    \/ ChunkStep
    \/ ChunkReturn

SpecChunk == InitChunk /\ [][NextChunk]_vars

\* chunk_text runs on: a pass of the loop that can be made is made
SpecChunkLive == SpecChunk /\ WF_vars(NextChunk)

(***************************************************************************)
(* DenseRetrievalTool                                                      *)
(*                                                                         *)
(* idf scores are kept in tenths.  A TF-IDF vector is kept before its      *)
(* normalisation, as count * idf per term: dividing by len(words) and by   *)
(* the norm changes neither the direction of the vector nor whether its    *)
(* norm is 0.  A similarity is kept as its square in hundredths.           *)
(***************************************************************************)
\* the queries of a dense search, as their words
VectorQueries ==
    { <<>>, <<"a", "zebra">>, <<"fox">>, <<"Fox", "dog">>, <<"the", "Cat">> }

\* DenseRetrievalTool.search: threshold = 0.1, squared, in hundredths
DenseThreshold == 1

\* math.log(doc_count / (word_doc_count + 1)), in tenths
LogRatioTenths(doc_count, df_plus_1) ==
    CASE doc_count = df_plus_1      -> 0
      [] <<doc_count, df_plus_1>> = <<1, 2>> -> -7
      [] <<doc_count, df_plus_1>> = <<2, 3>> -> -4
      [] <<doc_count, df_plus_1>> = <<3, 2>> -> 4
      [] <<doc_count, df_plus_1>> = <<3, 4>> -> -3
      [] <<doc_count, df_plus_1>> = <<2, 1>> -> 7
      [] <<doc_count, df_plus_1>> = <<3, 1>> -> 11

RECURSIVE DenseRead(_, _, _)
\* index_documents, "Process documents": the loop over file_paths from the
\* state acc = [documents, vocabulary]; no file of the workspace is longer
\* than chunk_size
DenseRead(w, file_paths, acc) ==
    IF file_paths = <<>>
    THEN acc
    ELSE LET file_path == Head(file_paths)
             content   == w[file_path]
         IN  DenseRead(w, Tail(file_paths),
                 IF DocIndex(acc.documents, file_path) = 0 /\ content # <<>>
                 THEN [documents  |-> Append(acc.documents,
                                             [doc_id |-> file_path, tokens |-> content]),
                       vocabulary |-> acc.vocabulary
                                      \cup {Tokenize(content)[i] : i \in DOMAIN Tokenize(content)}]
                 ELSE acc)

\* DenseRetrievalTool._calculate_idf_scores
CalculateIdfScores(docs, vocabulary, old) ==
    [t \in Terms |->
        IF t \in vocabulary
        THEN LogRatioTenths(Len(docs),
                 Cardinality({i \in DOMAIN docs :
                                 TokenCount(Tokenize(docs[i].tokens), t) >= 1}) + 1)
        ELSE old[t]]

\* DenseRetrievalTool._text_to_vector
TextToVector(words, vocabulary, idf) ==
    [t \in Terms |->
        IF t \in vocabulary /\ TokenCount(Tokenize(words), t) >= 1
        THEN TokenCount(Tokenize(words), t) * idf[t]
        ELSE 0]

RECURSIVE SumOver(_, _)
\* the sum of f[t] over the terms in ts
SumOver(f, ts) ==
    IF ts = {} THEN 0
    ELSE LET t == CHOOSE x \in ts : TRUE
         IN  f[t] + SumOver(f, ts \ {t})

\* np.dot(vec1, vec2)
Dot(vec1, vec2) == SumOver([t \in Terms |-> vec1[t] * vec2[t]], Terms)

\* DenseRetrievalTool._cosine_similarity, squared and in hundredths, with
\* the sign of the similarity
CosineSimilarity(vec1, vec2) ==
    IF Dot(vec1, vec1) = 0 \/ Dot(vec2, vec2) = 0
    THEN 0
    ELSE LET sq == (100 * Dot(vec1, vec2) * Dot(vec1, vec2))
                   \div (Dot(vec1, vec1) * Dot(vec2, vec2))
         IN  IF Dot(vec1, vec2) >= 0 THEN sq ELSE 0 - sq

\* AboveThreshold with the threshold 0
AboveThresholdZero(similarity) == similarity >= 0

\* "if similarity >= threshold"
AboveThreshold(similarity) == similarity >= DenseThreshold

\* DenseRetrievalTool.search
DenseSearch(docs, vecs, vocabulary, idf, query, top_k) ==
    IF vecs = <<>>
    THEN [outcome |-> "ok", results |-> <<>>]
    ELSE LET query_embedding == TextToVector(query, vocabulary, idf)
             scored       == [i \in DOMAIN vecs |->
                                 [source |-> docs[i].doc_id,
                                  score  |-> CosineSimilarity(query_embedding, vecs[i])]]
             similarities == SortedDesc(SelectSeq(scored, LAMBDA r : AboveThreshold(r.score)))
         IN  [outcome |-> "ok",
              results |-> SubSeq(similarities, 1, Min(top_k, Len(similarities)))]

\* a DenseRetrievalTool constructed over any workspace
InitDense ==
    /\ CtlIdle
    /\ BM25Idle
    /\ ExtractIdle
    /\ HybridIdle
    /\ ChunkIdle
    /\ dense_files \in [Files -> Contents]
    /\ document_cache = [exists |-> FALSE, documents |-> <<>>, vocabulary |-> {}]
    /\ dense_documents = <<>>
    /\ dense_vocabulary = {}
    /\ idf_scores = [t \in Terms |-> 0]
    /\ embeddings = <<>>
    /\ vector_query = <<>>
    /\ vector_results = [outcome |-> "none", results |-> <<>>]
    /\ PipeIdle
    /\ VersionIdle

\* DenseRetrievalTool.index_documents
DenseIndex ==
    \E file_paths \in Batches :
        LET loaded == IF document_cache.exists
                      THEN [documents  |-> document_cache.documents,
                            vocabulary |-> document_cache.vocabulary]
                      ELSE [documents  |-> dense_documents,
                            vocabulary |-> dense_vocabulary]
            read   == DenseRead(dense_files, file_paths, loaded)
            idf    == CalculateIdfScores(read.documents, read.vocabulary, idf_scores)
        IN  /\ Len(read.documents) > Len(dense_documents)
            /\ dense_documents' = read.documents
            /\ dense_vocabulary' = read.vocabulary
            /\ idf_scores' = idf
            /\ embeddings' = [i \in DOMAIN read.documents |->
                                 TextToVector(read.documents[i].tokens, read.vocabulary, idf)]
            /\ document_cache' = [exists |-> TRUE, documents |-> read.documents,
                                  vocabulary |-> read.vocabulary]
            /\ UNCHANGED <<dense_files, vector_query, vector_results>>
            /\ UNCHANGED notDense

\* DenseRetrievalTool.search with the default top_k
DenseQuery ==
    \E query \in VectorQueries :
        /\ vector_query' = query
        /\ vector_results' = DenseSearch(dense_documents, embeddings, dense_vocabulary,
                                         idf_scores, query, RetrievalTopK)
        /\ UNCHANGED <<dense_files, document_cache, dense_documents,
                       dense_vocabulary, idf_scores, embeddings>>
        /\ UNCHANGED notDense

NextDense ==
    \/ DenseIndex
    \/ DenseQuery

SpecDense == InitDense /\ [][NextDense]_vars

(***************************************************************************)
(* DeepResearchWorkflow of roma: five nodes run in the order of the edges  *)
(*                                                                         *)
(* A field of the NodeState is "None", "empty" (an empty list) or "set".   *)
(* An error is its message, as the fixed part and the text of the          *)
(* exception, and the node that added it.                                  *)
(***************************************************************************)
\* the nodes in the order of the edges of _build_workflow
Stages == 1..5

\* BaseNode.name of each node
NodeName(stage) ==
    CASE stage = 1 -> "FileDiscoveryNode"
      [] stage = 2 -> "ContentExtractionNode"
      [] stage = 3 -> "AnalysisNode"
      [] stage = 4 -> "ResearchNode"
      [] stage = 5 -> "ReportGenerationNode"

\* the field a node's process fills
OutputField(ns, stage) ==
    CASE stage = 1 -> ns.discovered_files
      [] stage = 2 -> ns.extracted_content
      [] stage = 3 -> ns.analyzed_content
      [] stage = 4 -> ns.research_findings
      [] stage = 5 -> ns.final_report

\* the assignment of a node's process to its field
SetOutputField(ns, stage, value) ==
    CASE stage = 1 -> [ns EXCEPT !.discovered_files = value]
      [] stage = 2 -> [ns EXCEPT !.extracted_content = value]
      [] stage = 3 -> [ns EXCEPT !.analyzed_content = value]
      [] stage = 4 -> [ns EXCEPT !.research_findings = value]
      [] stage = 5 -> [ns EXCEPT !.final_report = value]

\* NodeState.add_error
AddError(ns, error, detail, node_name) ==
    [ns EXCEPT !.errors = Append(@, [error |-> error, detail |-> detail, node |-> node_name])]

\* NodeState.add_warning
AddWarning(ns, warning, node_name) ==
    [ns EXCEPT !.warnings = Append(@, [warning |-> warning, node |-> node_name])]

\* NodeState.add_node_execution
AddNodeExecution(ns, node_name, success) ==
    [ns EXCEPT !.node_history = Append(@, [node |-> node_name, success |-> success])]

\* the messages that hold one of the critical_error_indicators
CriticalMessages ==
    { "No discovered files to extract content from",
      "No extracted content to analyze",
      "No analyzed content available for research",
      "No research findings available for report generation" }

\* DeepResearchWorkflow._has_critical_errors
HasCriticalErrors(ns) ==
    \E i \in DOMAIN ns.errors : ns.errors[i].error \in CriticalMessages

\* BaseNode.validate_input, which accepts every state
ValidateInputDefault(ns, stage, directory_path) == "None"

\* validate_input of each node: the error message or "None"
ValidateInput(ns, stage, directory_path) ==
    CASE stage = 1 ->
            IF directory_path = "file" THEN "Path is not a directory" ELSE "None"
      [] stage = 2 ->
            IF ns.discovered_files # "set"
            THEN "No discovered files to extract content from" ELSE "None"
      [] stage = 3 ->
            IF ns.extracted_content # "set"
            THEN "No extracted content to analyze" ELSE "None"
      [] stage = 4 ->
            IF ns.analyzed_content # "set"
            THEN "No analyzed content available for research" ELSE "None"
      [] stage = 5 ->
            IF ns.research_findings # "set"
            THEN "No research findings available for report generation" ELSE "None"

\* what a node's process can come to: it fills its field, it finds nothing,
\* or a call it makes raises
ProcessOutcomes(stage) ==
    IF stage = 5 THEN {"set", "raises"} ELSE {"set", "empty", "raises"}

\* process of each node: the state it leaves and the exception it raises
NodeProcess(ns, stage, outcome) ==
    CASE outcome = "raises" ->
            [state |-> ns, raised |-> "Permission denied"]
      [] outcome = "set" ->
            [state |-> SetOutputField(ns, stage, "set"), raised |-> "None"]
      [] outcome = "empty" /\ stage = 1 ->
            [state  |-> SetOutputField(AddWarning(ns, "No supported files found",
                                                  NodeName(stage)), stage, "empty"),
             raised |-> "None"]
      [] outcome = "empty" /\ stage = 3 ->
            [state |-> SetOutputField(ns, stage, "empty"), raised |-> "'total_keywords'"]
      [] outcome = "empty" /\ stage \in {2, 4} ->
            [state |-> SetOutputField(ns, stage, "empty"), raised |-> "None"]

\* validate_output of each node: a warning or "None"
ValidateOutput(ns, stage, concern) ==
    IF OutputField(ns, stage) # "set" THEN "no output"
    ELSE IF concern THEN "concern" ELSE "None"

\* BaseNode.execute
Execute(ns, stage, directory_path, outcome, concern) ==
    LET validation_error == ValidateInput(ns, stage, directory_path)
        done             == NodeProcess(ns, stage, outcome)
        warning          == ValidateOutput(done.state, stage, concern)
    IN  IF validation_error # "None"
        THEN [state   |-> AddNodeExecution(AddError(ns, validation_error, "", NodeName(stage)),
                                           NodeName(stage), FALSE),
              process |-> FALSE]
        ELSE IF done.raised # "None"
        THEN [state   |-> AddNodeExecution(AddError(done.state, "Error in", done.raised,
                                                    NodeName(stage)),
                                           NodeName(stage), FALSE),
              process |-> TRUE]
        ELSE [state   |-> AddNodeExecution(
                              IF warning # "None"
                              THEN AddWarning(done.state, warning, NodeName(stage))
                              ELSE done.state,
                              NodeName(stage), TRUE),
              process |-> TRUE]

\* the _wrapper of each node
Wrapper(ns, stage, directory_path, outcome, concern) ==
    IF stage > 1 /\ HasCriticalErrors(ns)
    THEN [state   |-> AddError(ns, "Skipping due to critical errors", "", "workflow"),
          process |-> FALSE]
    ELSE Execute(ns, stage, directory_path, outcome, concern)

\* a DeepResearchWorkflow and the arguments of one run_research call
InitPipe ==
    /\ CtlIdle
    /\ BM25Idle
    /\ ExtractIdle
    /\ HybridIdle
    /\ ChunkIdle
    /\ DenseIdle
    /\ run_inputs \in [directory_path : {"missing", "file", "directory"}, query : BOOLEAN]
    /\ node_state = [discovered_files |-> "None", extracted_content |-> "None",
                     analyzed_content |-> "None", research_findings |-> "None",
                     final_report |-> "None", errors |-> <<>>, warnings |-> <<>>,
                     node_history |-> <<>>]
    /\ pipe_pc = 0
    /\ process_calls = {}
    /\ run_result = "none"
    /\ VersionIdle

\* run_research up to ainvoke: "Validate inputs" and "Create initial state"
RunResearch ==
    /\ pipe_pc = 0
    /\ IF run_inputs.directory_path = "missing" \/ ~run_inputs.query
       THEN /\ run_result' = "False"
            /\ pipe_pc' = 7
       ELSE /\ run_result' = run_result
            /\ pipe_pc' = 1
    /\ UNCHANGED <<run_inputs, node_state, process_calls>>
    /\ UNCHANGED notPipe

\* one node of the graph, through its wrapper
NodeStep ==
    /\ pipe_pc \in Stages
    /\ \E outcome \in ProcessOutcomes(pipe_pc), concern \in BOOLEAN :
           LET ran == Wrapper(node_state, pipe_pc, run_inputs.directory_path,
                              outcome, concern)
           IN  /\ node_state' = ran.state
               /\ process_calls' = IF ran.process THEN process_calls \cup {pipe_pc}
                                    ELSE process_calls
    /\ pipe_pc' = pipe_pc + 1
    /\ UNCHANGED <<run_inputs, run_result>>
    /\ UNCHANGED notPipe

\* run_research after ainvoke: "Extract results"
ExtractResults ==
    /\ pipe_pc = 6
    /\ run_result' = "True"
    /\ pipe_pc' = 7
    /\ UNCHANGED <<run_inputs, node_state, process_calls>>
    /\ UNCHANGED notPipe

\* run_research, "except Exception": ainvoke or the extraction of the results
\* raises
WorkflowError ==
    /\ pipe_pc \in 1..6
    /\ run_result' = "False"
    /\ pipe_pc' = 7
    /\ UNCHANGED <<run_inputs, node_state, process_calls>>
    /\ UNCHANGED notPipe

NextPipe ==
    \/ RunResearch
    \/ NodeStep
    \/ ExtractResults
    \/ WorkflowError

SpecPipe == InitPipe /\ [][NextPipe]_vars

(***************************************************************************)
(* DatabaseManager: the versions of the prompts                            *)
(***************************************************************************)
\* the prompt ids of the calls
PromptIds == {1, 2}

\* the rows of one prompt
VersionsOf(rows, prompt_id) ==
    {i \in DOMAIN rows : rows[i].prompt_id = prompt_id}

\* "SELECT COALESCE(MAX(version_number), 0) + 1 ... WHERE prompt_id = ?"
NextVersionNumber(rows, prompt_id) ==
    IF VersionsOf(rows, prompt_id) = {}
    THEN 1
    ELSE (CHOOSE n \in {rows[i].version_number : i \in VersionsOf(rows, prompt_id)} :
             \A i \in VersionsOf(rows, prompt_id) : rows[i].version_number <= n) + 1

\* "SELECT id ... WHERE prompt_id = ? AND version_number = ?" finds a row
VersionExists(rows, prompt_id, version_number) ==
    \E i \in VersionsOf(rows, prompt_id) : rows[i].version_number = version_number

\* Deactivate that updates no row
DeactivateNone(rows, prompt_id) == rows

\* "UPDATE prompt_versions SET is_active = FALSE WHERE prompt_id = ?"
Deactivate(rows, prompt_id) ==
    [i \in DOMAIN rows |->
        IF rows[i].prompt_id = prompt_id
        THEN [rows[i] EXCEPT !.is_active = FALSE]
        ELSE rows[i]]

\* "UPDATE prompt_versions SET is_active = TRUE WHERE prompt_id = ? AND
\* version_number = ?"
Activate(rows, prompt_id, version_number) ==
    [i \in DOMAIN rows |->
        IF rows[i].prompt_id = prompt_id /\ rows[i].version_number = version_number
        THEN [rows[i] EXCEPT !.is_active = TRUE]
        ELSE rows[i]]

\* setup_database on a new file
InitVersions ==
    /\ CtlIdle
    /\ BM25Idle
    /\ ExtractIdle
    /\ HybridIdle
    /\ ChunkIdle
    /\ DenseIdle
    /\ PipeIdle
    /\ prompt_versions = <<>>
    /\ db_result = [call |-> "none", prompt_id |-> 0, version_number |-> 0, raised |-> FALSE]

\* DatabaseManager.save_prompt_version
SavePromptVersion ==
    \E prompt_id \in PromptIds :
        LET version_number == NextVersionNumber(prompt_versions, prompt_id)
        IN  /\ version_number <= MaxVersions
            /\ prompt_versions' = Append(prompt_versions,
                                         [prompt_id      |-> prompt_id,
                                          version_number |-> version_number,
                                          is_active      |-> FALSE])
            /\ db_result' = [call |-> "save_prompt_version", prompt_id |-> prompt_id,
                             version_number |-> version_number, raised |-> FALSE]
            /\ UNCHANGED notVersion

\* DatabaseManager.set_active_version
SetActiveVersion ==
    \E prompt_id \in PromptIds, version_number \in 1..(MaxVersions + 1) :
        /\ IF ~VersionExists(prompt_versions, prompt_id, version_number)
           THEN /\ prompt_versions' = prompt_versions
                /\ db_result' = [call |-> "set_active_version", prompt_id |-> prompt_id,
                                 version_number |-> version_number, raised |-> TRUE]
           ELSE /\ prompt_versions' = Activate(Deactivate(prompt_versions, prompt_id),
                                               prompt_id, version_number)
                /\ db_result' = [call |-> "set_active_version", prompt_id |-> prompt_id,
                                 version_number |-> version_number, raised |-> FALSE]
        /\ UNCHANGED notVersion

NextVersions ==
    \/ SavePromptVersion
    \/ SetActiveVersion

SpecVersions == InitVersions /\ [][NextVersions]_vars

(***************************************************************************)
(* Properties of the research controller                                   *)
(***************************************************************************)

\* C1: the research loop of run_research always ends: the stream is left
\* after at most StepCeiling + 1 steps, and the number of
\* ITERATING -> SEARCHING cycles of a run never exceeds max_iterations plus
\* the step ceiling.
C1_LoopTerminates ==
    /\ iterCycles <= max_iterations + StepCeiling
    /\ step_count <= StepCeiling + 1

\* a run that iterated three times and was cut by the step ceiling
C1_Witness == pc = "returned" /\ iterCycles >= 3 /\ step_count > StepCeiling

\* C2: whenever run_research stops because step_count > 20, the state it
\* returns has status COMPLETED.
C2_CeilingMarksComplete ==
    (pc = "returned" /\ step_count > StepCeiling) => returned.status = "COMPLETED"

\* the edges of the documented status graph
StatusEdges ==
    { <<"PLANNING", "SEARCHING">>, <<"SEARCHING", "SEARCHING">>,
      <<"SEARCHING", "ANALYZING">>, <<"ANALYZING", "ITERATING">>,
      <<"ANALYZING", "SYNTHESIZING">>, <<"ITERATING", "SEARCHING">>,
      <<"SYNTHESIZING", "COMPLETED">> }

\* C3: status starts at PLANNING and every change of status follows an edge
\* of the documented graph; COMPLETED is never left.
C3_StatusGraph ==
    /\ status = "PLANNING"
    /\ [][status' # status => <<status, status'>> \in StatusEdges]_vars

C6_IterationStep ==
    [][(pc = "streaming" /\ node = "iteration") =>
        /\ status = "ITERATING" /\ status' = "SEARCHING"
        /\ current_query' = iterations[Len(iterations)].follow_up_questions[1]
        /\ current_iteration' = current_iteration + 1
        /\ pending_searches' =
               IF current_iteration' = 1
               THEN <<"grep_search", "fuzzy_search">>
               ELSE <<"grep_search", "fuzzy_search", "dense_retrieval", "bm25_retrieval">>
        /\ completed_searches' = <<>>]_vars

\* the controller right after its second iteration step
C6_Witness ==
    /\ status = "SEARCHING" /\ node = "search"
    /\ current_iteration = 2
    /\ Len(pending_searches) = 4
    /\ completed_searches = <<>>
    /\ current_query # "original"

\* C7: a search step with a non-empty queue removes exactly the head of
\* pending_searches, appends it to completed_searches and only appends to
\* all_results; status becomes ANALYZING exactly when the queue has become
\* empty and stays SEARCHING otherwise.
C7_SearchStep ==
    [][(pc = "streaming" /\ node = "search" /\ pending_searches # <<>>) =>
        /\ pending_searches' = Tail(pending_searches)
        /\ completed_searches' = Append(completed_searches, Head(pending_searches))
        /\ Len(all_results') >= Len(all_results)
        /\ SubSeq(all_results', 1, Len(all_results)) = all_results
        /\ (status' = "ANALYZING") <=> (pending_searches' = <<>>)
        /\ pending_searches' # <<>> => (status = "SEARCHING" /\ status' = "SEARCHING")]_vars

\* a search step that added results to earlier ones and left strategies pending
C7_Witness ==
    /\ status = "SEARCHING" /\ node = "search"
    /\ Len(completed_searches) >= 2
    /\ pending_searches # <<>>
    /\ Len(all_results) > BulkSize
    /\ \E i, j \in DOMAIN all_results : all_results[i].tool # all_results[j].tool

\* C8: the confidence_score run_research returns is >= 0.1 and <= 1.0.
C8_ConfidenceRange ==
    pc = "returned" =>
        /\ 10 * returned.confidence_score[1] >= returned.confidence_score[2]
        /\ returned.confidence_score[1] <= returned.confidence_score[2]

\* C9: the results stored in the ResearchIteration are exactly the
\* accumulated results with relevance_score >= similarity_threshold; if
\* none qualifies they are the min(10, n) highest-scoring results in
\* descending order; they are never empty when all_results is non-empty.
C9_RelevanceFilter ==
    [][(pc = "streaming" /\ node = "analysis" /\ all_results # <<>>) =>
        LET kept   == SelectSeq(all_results, LAMBDA r : r.score >= similarity_threshold)
            stored == iterations'[Len(iterations')].results
            Count(seq, v) == Cardinality({i \in DOMAIN seq : seq[i].score = v})
            lowest == CHOOSE v \in {stored[i].score : i \in DOMAIN stored} :
                          \A i \in DOMAIN stored : v <= stored[i].score
        IN  /\ Len(iterations') = Len(iterations) + 1
            /\ stored # <<>>
            /\ kept # <<>> => stored = kept
            /\ kept = <<>> =>
                 /\ Len(stored) = Min(10, Len(all_results))
                 /\ \A i \in 1..(Len(stored) - 1) : stored[i].score >= stored[i + 1].score
                 /\ \A i \in DOMAIN stored : \E j \in DOMAIN all_results : all_results[j] = stored[i]
                 /\ \A v \in {all_results[j].score : j \in DOMAIN all_results} :
                       IF v > lowest THEN Count(stored, v) = Count(all_results, v)
                       ELSE IF v = lowest THEN Count(stored, v) <= Count(all_results, v)
                       ELSE Count(stored, v) = 0]_vars

\* an analysis pass that fell back to the 10 best of more than 10 results,
\* which do not all have the same score
C9_Witness ==
    /\ node \in {"iteration", "synthesis"}
    /\ iterations # <<>>
    /\ Len(all_results) > 10
    /\ \A i \in DOMAIN all_results : all_results[i].score < similarity_threshold
    /\ \E i, j \in DOMAIN all_results : all_results[i].score # all_results[j].score
    /\ Len(iterations[Len(iterations)].results) = 10

C11_QueryErrorFatal ==
    original_query.words = 0 =>
        /\ node = "planning"
        /\ step_count = 0
        /\ status = "PLANNING"
        /\ completed_searches = <<>>
        /\ (pc = "returned" => returned.kind = "error")

\* C12: a strategy that raises during the search stage contributes no
\* results, is still dequeued and recorded in completed_searches, the
\* remaining strategies are still executed, and the run still returns status
\* COMPLETED with a complete report.
C12_StrategyFailureRecovered ==
    /\ [][(pc = "streaming" /\ node = "search" /\ pending_searches # <<>>
            /\ Head(pending_searches) = corpus.broken) =>
            /\ all_results' = all_results
            /\ pending_searches' = Tail(pending_searches)
            /\ completed_searches' = Append(completed_searches, corpus.broken)
            /\ pc' = "streaming" =>
                   node' = IF pending_searches' # <<>> THEN "search" ELSE "analysis"]_vars
    /\ []((corpus.broken # "none" /\ pc = "returned") =>
            /\ returned.status = "COMPLETED"
            /\ returned.research_report = "Deep Research Report")

\* C24: in a run with the default max_iterations = 3 in which every analysis
\* pass iterates until max_iterations is reached, the step ceiling does not
\* cut the run: synthesis and report have executed when run_research
\* returns, with status COMPLETED and a research_report.
C24_CeilingSparesDefaultRun ==
    (max_iterations = 3 /\ iterCycles = 3 /\ pc = "returned") =>
        /\ step_count <= StepCeiling
        /\ ranSynthesis
        /\ returned.status = "COMPLETED"
        /\ returned.research_report # "None"

\* C25: the ResearchIteration records are numbered by position and the list
\* is append-only; right after an analysis pass over a non-empty result list
\* len(iterations) = current_iteration + 1.
C25_IterationsAppendOnly ==
    /\ [](\A i \in DOMAIN iterations : iterations[i].iteration_number = i - 1)
    /\ [][/\ Len(iterations') >= Len(iterations)
          /\ SubSeq(iterations', 1, Len(iterations)) = iterations
          /\ (pc = "streaming" /\ node = "analysis" /\ all_results # <<>>) =>
                 /\ Len(iterations') = Len(iterations) + 1
                 /\ Len(iterations') = current_iteration' + 1]_vars

\* a finished run that recorded four analysis passes
C25_Witness ==
    /\ pc = "returned"
    /\ Len(iterations) = 4
    /\ iterations[4].iteration_number = 3
    /\ iterations[4].query # iterations[1].query

\* C26: 0 <= current_iteration <= max_iterations in every state of a run,
\* and current_iteration never decreases.
C26_CounterBounded ==
    /\ [](0 <= current_iteration /\ current_iteration <= max_iterations)
    /\ [][current_iteration' >= current_iteration]_vars

\* a run that used up its iterations
C26_Witness ==
    /\ max_iterations >= 2
    /\ current_iteration = max_iterations
    /\ iterCycles = max_iterations
    /\ node = "search"

\* C27: an analysis pass over a non-empty result list records at least one
\* and at most 5 follow-up questions, so the decision to iterate depends on
\* the iteration counter and the number of relevant results only, and the
\* iteration stage always has a follow-up question to select.
C27_FollowUpsExist ==
    /\ [][(pc = "streaming" /\ node = "analysis" /\ all_results # <<>>) =>
            LET recorded == iterations'[Len(iterations')]
            IN  /\ Len(recorded.follow_up_questions) >= 1
                /\ Len(recorded.follow_up_questions) <= 5
                /\ (status' = "ITERATING") <=>
                       (current_iteration < max_iterations /\ Len(recorded.results) < 20)]_vars
    /\ []((pc = "streaming" /\ node = "iteration") =>
            /\ iterations # <<>>
            /\ iterations[Len(iterations)].follow_up_questions # <<>>)

\* the iteration stage about to select among several follow-up questions,
\* and an earlier pass that had recorded a single one
C27_Witness ==
    /\ pc = "streaming" /\ node = "iteration"
    /\ Len(iterations) >= 2
    /\ Len(iterations[1].follow_up_questions) = 1
    /\ Len(iterations[Len(iterations)].follow_up_questions) >= 2

(***************************************************************************)
(* Properties of the lexical index                                         *)
(***************************************************************************)
RECURSIVE SumLengths(_)
\* the sum of doc_lengths over the documents docs
SumLengths(docs) ==
    IF docs = <<>> THEN 0
    ELSE doc_lengths[Head(docs).doc_id] + SumLengths(Tail(docs))

\* C15: after any sequence of index_documents calls on one index,
\* document_frequencies[t] is the number of indexed documents whose term
\* frequency for t is >= 1, and avg_doc_length is the mean of doc_lengths
\* over all indexed documents.
C15_StatsConsistent ==
    /\ \A t \in Terms :
           document_frequencies[t] =
               Cardinality({i \in DOMAIN documents :
                               term_frequencies[t][documents[i].doc_id] >= 1})
    /\ avg_doc_length[1] * Len(documents) = avg_doc_length[2] * SumLengths(documents)

\* the indexed document at position i holds a term of the latest query
SharesTerm(i) ==
    \E k \in DOMAIN Tokenize(bm25_query) :
        TokenCount(documents[i].tokens, Tokenize(bm25_query)[k]) >= 1

\* C16: for every indexed batch and every query, a document that holds at
\* least one query term has a BM25 score >= 0, and the result list holds no
\* document that shares no term with the query.
C16_ScoresNonNegative ==
    bm25_results.outcome = "ok" =>
        /\ \A i \in DOMAIN documents :
               SharesTerm(i) =>
                   BM25Score(TheIndex, Tokenize(bm25_query), documents[i].doc_id) >= 0
        /\ \A j \in DOMAIN bm25_results.results :
               \E i \in DOMAIN documents :
                   /\ documents[i].doc_id = bm25_results.results[j].source
                   /\ SharesTerm(i)

\* C17: when exactly one document of a freshly indexed corpus holds the
\* query term, lexical search returns that document and no other.
C17_SingleMatchReturned ==
    (/\ bm25_results.outcome # "none"
     /\ Len(index_calls) = 1
     /\ Len(documents) >= 2
     /\ Len(Tokenize(bm25_query)) = 1
     /\ Cardinality({i \in DOMAIN documents : SharesTerm(i)}) = 1) =>
        /\ bm25_results.outcome = "ok"
        /\ {bm25_results.results[j].source : j \in DOMAIN bm25_results.results}
               = {documents[i].doc_id : i \in {n \in DOMAIN documents : SharesTerm(n)}}

\* the place of a document id in ascending order
DocIdRank(id) ==
    CASE id = "a.txt" -> 1
      [] id = "b.txt" -> 2
      [] id = "c.txt" -> 3

\* C18: lexical search returns at most top_k documents in descending score
\* order, and documents with equal scores come by document id ascending,
\* whatever order the documents were indexed in.
C18_TopKOrder ==
    bm25_results.outcome = "ok" =>
        LET results == bm25_results.results
        IN  /\ Len(results) <= bm25_top_k
            /\ \A i, j \in DOMAIN results :
                   i < j =>
                       \/ results[i].bm25_score > results[j].bm25_score
                       \/ /\ results[i].bm25_score = results[j].bm25_score
                          /\ DocIdRank(results[i].source) < DocIdRank(results[j].source)

\* C14: when run_research is called again on the same workflow object, the
\* run has its own index: what its lexical search returns depends only on
\* its query and on the files the workspace holds now, as if the index had
\* been built for this run.
C14_RunsIndependent ==
    [][run_count' = run_count + 1 =>
        bm25_results' =
            BM25Search(IndexDocuments(EmptyIndex, workspace, Discovered(workspace)),
                       workspace, bm25_query', RetrievalTopK)]_vars

(***************************************************************************)
(* Properties of the content extraction                                    *)
(***************************************************************************)
\* C13: batch extraction isolates failures per document: the batches
\* processed so far gave exactly one record per input file, in order, a
\* failure record for each file whose read or parse fails or raises and the
\* file's own content for every other file; no batch is skipped, and at the
\* end successful_extractions + failed_extractions = total_files.
C13_BatchIsolation ==
    /\ Len(extracted_content) = Min(batch_start, Len(discovered_files))
    /\ \A i \in DOMAIN extracted_content :
           /\ extracted_content[i].file_path = i
           /\ extracted_content[i].success = (discovered_files[i] \in {"text", "document"})
           /\ extracted_content[i].success => extracted_content[i].content = i
    /\ extract_pc = "done" =>
           /\ Len(extracted_content) = Len(discovered_files)
           /\ extraction_stats.total_files = Len(discovered_files)
           /\ extraction_stats.successful_extractions
                  + extraction_stats.failed_extractions = extraction_stats.total_files
           /\ extraction_stats.successful_extractions = Len(state_extracted)
           /\ state_extracted = SelectSeq(extracted_content, LAMBDA r : r.success)

\* an extraction of several batches that is through, in which a file raised,
\* a document did not parse, and files before and after them were extracted
C13_Witness ==
    /\ extract_pc = "done"
    /\ Len(discovered_files) > max_concurrent_files
    /\ \E i, j, k, l \in DOMAIN discovered_files :
           /\ i < j /\ j < k /\ k < l
           /\ discovered_files[i] = "text"
           /\ discovered_files[j] = "raises"
           /\ discovered_files[k] = "document_broken"
           /\ discovered_files[l] = "document"
    /\ extraction_stats.successful_extractions = 2
    /\ extraction_stats.failed_extractions = 2

(***************************************************************************)
(* Properties of the hybrid search                                         *)
(***************************************************************************)
\* the sources of a result list
SourcesOf(results) == {results[i].source : i \in DOMAIN results}

\* the score of the best-ranked result of a source, 0 when it has none
BestRankedScore(results, key) ==
    LET at == {i \in DOMAIN results : results[i].source = key}
    IN  IF at = {}
        THEN 0
        ELSE results[CHOOSE i \in at : \A j \in at : i <= j].score

\* C19: every source of the hybrid output has the fused score
\* dense_weight * v + sparse_weight * l, v being the score of the source's
\* best-ranked chunk in the vector search and l its lexical score, 0 for a
\* sub-result the source is not in; a source of one sub-result only is still
\* in the output when top_k leaves room for every source.
C19_FusedScore ==
    hybrid_results.outcome = "ok" =>
        LET results == hybrid_results.results
            union   == SourcesOf(dense_results) \cup SourcesOf(sparse_results)
        IN  /\ \A i \in DOMAIN results :
                   results[i].score =
                       6 * BestRankedScore(dense_results, results[i].source)
                       + 4 * BestRankedScore(sparse_results, results[i].source)
            /\ Cardinality(union) <= hybrid_top_k => SourcesOf(results) = union

\* C20: the hybrid output lists sources of the union of the two sub-results,
\* each at most once, in non-increasing order of fused score, cut to the
\* min(top_k, number of sources) best of them.
C20_HybridOutput ==
    hybrid_results.outcome = "ok" =>
        LET results == hybrid_results.results
            union   == SourcesOf(dense_results) \cup SourcesOf(sparse_results)
            fused   == FusedResults(dense_results, sparse_results)
        IN  /\ SourcesOf(results) \subseteq union
            /\ \A i, j \in DOMAIN results : i # j => results[i].source # results[j].source
            /\ NonIncreasing(results)
            /\ Len(results) = Min(hybrid_top_k, Cardinality(union))
            /\ \A k \in DOMAIN fused :
                   fused[k].source \notin SourcesOf(results) =>
                       \A i \in DOMAIN results : results[i].score >= fused[k].score

\* a hybrid search over more sources than top_k, one of them in both
\* sub-results with several chunks, whose output has two different scores
C20_Witness ==
    /\ hybrid_results.outcome = "ok"
    /\ Cardinality(SourcesOf(dense_results) \cup SourcesOf(sparse_results)) > hybrid_top_k
    /\ Len(dense_results) > Cardinality(SourcesOf(dense_results))
    /\ SourcesOf(dense_results) \cap SourcesOf(sparse_results) # {}
    /\ Len(hybrid_results.results) = 2
    /\ hybrid_results.results[1].score > hybrid_results.results[2].score

(***************************************************************************)
(* Properties of the text chunker                                          *)
(***************************************************************************)
\* C22: chunking a text that is shorter than the chunk size (fewer words,
\* sentences or characters than chunk_size) yields exactly one chunk, for
\* every overlap.
C22_ShortTextOneChunk ==
    (/\ chunk_pc = "done"
     /\ TokenizeWords(text) # <<>>
     /\ Len(Units(chunk_by, text)) < chunk_size) => Len(chunks) = 1

\* C23: chunking by words, every chunk holds at most chunk_size words, the
\* chunk ids count from 0 in output order, two consecutive chunks share at
\* most overlap words, and when the call is through every word of the text
\* is in at least one chunk.
C23_WordChunks ==
    chunk_by = "words" =>
        LET words == TokenizeWords(text)
        IN  /\ \A k \in DOMAIN chunks :
                   /\ Len(chunks[k].content) <= chunk_size
                   /\ chunks[k].chunk_id = k - 1
                   /\ chunks[k].content =
                          SubSeq(words, chunks[k].start_position + 1, chunks[k].end_position)
            /\ \A k \in 1..(Len(chunks) - 1) :
                   chunks[k].end_position - chunks[k + 1].start_position <= overlap
            /\ chunk_pc = "done" =>
                   \A i \in DOMAIN words :
                       \E k \in DOMAIN chunks :
                           /\ chunks[k].start_position < i
                           /\ i <= chunks[k].end_position
                           /\ chunks[k].content[i - chunks[k].start_position] = words[i]

\* a text of three words chunked by two words with one word of overlap
C23_Witness ==
    /\ chunk_by = "words" /\ chunk_pc = "done"
    /\ Len(TokenizeWords(text)) = 3
    /\ chunk_size = 2 /\ overlap = 1
    /\ Len(chunks) = 3
    /\ chunks[1].end_position - chunks[2].start_position = 1

\* C29: chunk_text terminates for every non-empty text, chunk_size >= 1 and
\* overlap >= 0, overlap >= chunk_size included, under the three methods:
\* every pass of the loop moves the start index up, and the call returns.
C29_ChunkingTerminates ==
    /\ [][(chunk_pc = "loop" /\ chunk_pc' = "loop") => start_idx' > start_idx]_vars
    /\ <>(chunk_pc = "done")

\* a call with overlap >= chunk_size that went through the loop several
\* times and returned
C29_Witness ==
    /\ chunk_pc = "done"
    /\ overlap >= chunk_size
    /\ Len(chunks) >= 3
    /\ start_idx >= Len(Units(chunk_by, text))

(***************************************************************************)
(* Properties of the dense retrieval                                       *)
(***************************************************************************)
\* C21: a query that is empty or has only terms absent from the vocabulary,
\* run against a non-empty vector index, has similarity 0 with every indexed
\* chunk and returns an empty result list, without raising.
C21_OutOfVocabularyQuery ==
    (/\ vector_results.outcome # "none"
     /\ embeddings # <<>>
     /\ \A k \in DOMAIN Tokenize(vector_query) :
            Tokenize(vector_query)[k] \notin dense_vocabulary) =>
        /\ vector_results = [outcome |-> "ok", results |-> <<>>]
        /\ \A i \in DOMAIN embeddings :
               CosineSimilarity(TextToVector(vector_query, dense_vocabulary, idf_scores),
                                embeddings[i]) = 0

\* a search for a term no document holds, on an index of three documents
\* that has results for other queries
C21_Witness ==
    /\ vector_results.outcome = "ok"
    /\ Tokenize(vector_query) = <<"zebra">>
    /\ Len(embeddings) = 3
    /\ vector_results.results = <<>>
    /\ DenseSearch(dense_documents, embeddings, dense_vocabulary, idf_scores,
                   <<"fox">>, RetrievalTopK).results # <<>>

(***************************************************************************)
(* Properties of the roma workflow                                         *)
(***************************************************************************)
\* a node before the next one to run has failed or left its field unfilled
StageBroke ==
    \E s \in Stages :
        /\ s < pipe_pc
        /\ \/ OutputField(node_state, s) # "set"
           \/ \E i \in DOMAIN node_state.node_history :
                  /\ node_state.node_history[i].node = NodeName(s)
                  /\ ~node_state.node_history[i].success

\* C28: once a stage has failed or produced no output, a later stage's
\* process does not run, the stage adds one error and leaves the fields of
\* the later stages unset, and run_research does not raise.
C28_LaterStagesSkipped ==
    /\ [](run_result # "raised")
    /\ [][(pipe_pc \in Stages /\ StageBroke /\ pipe_pc' = pipe_pc + 1) =>
              /\ process_calls' = process_calls
              /\ Len(node_state'.errors) = Len(node_state.errors) + 1
              /\ \A t \in Stages : t >= pipe_pc => OutputField(node_state', t) = "None"]_vars

\* a run whose file discovery found nothing: the four later nodes added one
\* error each, only the first process ran, and run_research returned
C28_Witness ==
    /\ pipe_pc = 7
    /\ run_result = "True"
    /\ node_state.discovered_files = "empty"
    /\ process_calls = {1}
    /\ Len(node_state.errors) = 4
    /\ node_state.final_report = "None"

(***************************************************************************)
(* Properties of the prompt versions                                       *)
(***************************************************************************)
\* the version numbers of a prompt whose is_active is true
ActiveVersions(rows, prompt_id) ==
    {rows[i].version_number : i \in {j \in VersionsOf(rows, prompt_id) : rows[j].is_active}}

\* C30: after any sequence of save_prompt_version and set_active_version
\* calls a prompt has at most one active version; set_active_version on a
\* version that does not exist raises ValueError and changes no active flag;
\* save_prompt_version does not change which version is active.
C30_OneActiveVersion ==
    /\ [](\A p \in PromptIds : Cardinality(ActiveVersions(prompt_versions, p)) <= 1)
    /\ [][(/\ db_result'.call = "set_active_version"
           /\ ~VersionExists(prompt_versions, db_result'.prompt_id,
                              db_result'.version_number)) =>
              /\ db_result'.raised
              /\ \A p \in PromptIds :
                     ActiveVersions(prompt_versions', p) = ActiveVersions(prompt_versions, p)]_vars
    /\ [][db_result'.call = "save_prompt_version" =>
              \A p \in PromptIds :
                  ActiveVersions(prompt_versions', p) = ActiveVersions(prompt_versions, p)]_vars

\* set_active_version has raised for a prompt of three versions whose
\* second version is the active one, while the other prompt has its own
C30_Witness ==
    /\ db_result.call = "set_active_version"
    /\ db_result.raised
    /\ db_result.prompt_id = 1
    /\ Cardinality(VersionsOf(prompt_versions, 1)) = 3
    /\ ActiveVersions(prompt_versions, 1) = {2}
    /\ ActiveVersions(prompt_versions, 2) = {1}

====
